---- MODULE Spec2Model ----
(***************************************************************************)
(* jsmnreader (src/jsmnreader.h): the jsmn tokenizer (jsmn_parse and its   *)
(* helpers, built without JSMN_PARENT_LINKS) and the reader's two-pass     *)
(* loader jsmnreader_load.                                                 *)
(*                                                                         *)
(* Offsets and token indices are 0-based as in the C code; the TLA+        *)
(* sequences js and tokens are read through At and Tok.  A character is a  *)
(* one-character string.                                                   *)
(***************************************************************************)
EXTENDS Integers, Sequences, FiniteSets, TLC

\* ------------------------------------------------------------------ bounds
\* The inputs: every text of at most MaxLen characters, every JSON document
\* of at most MaxTokens tokens, and every such document with one character
\* removed (truncated documents, keys without a value, unbalanced brackets).
MaxLen == 4

MaxTokens == 4

\* How many times in a row a reader is loaded.
MaxLoads == 2

\* The generated documents that are queried have at most MaxNavTokens
\* tokens, their Primitive tokens at most MaxDigits characters over sign
\* and digits, and the path strings at most MaxPath characters.
MaxNavTokens == 4

MaxDigits == 3

MaxPath == 3

\* The characters a text is drawn from: the structural characters, the
\* separators, one whitespace, one primitive character and the backslash.
Alphabet == {"{", "}", "[", "]", "\"", ":", ",", "1", "\\", " "}

RECURSIVE Texts(_)
Texts(n) ==
    IF n = 0 THEN {<< >>}
    ELSE LET shorter == Texts(n - 1)
         IN shorter \cup {Append(t, c) : t \in {s \in shorter : Len(s) = n - 1},
                                         c \in Alphabet}

Scalars == {<<"1">>, <<"\"", "1", "\"">>}

Keys == {<<"\"", "\"">>}

\* Values(n): the JSON values of exactly n tokens; ValueLists(n) and
\* MemberLists(n): the comma-separated lists of values, and of key:value
\* pairs, of exactly n tokens.
RECURSIVE Values(_), ValueLists(_), MemberLists(_)
Values(n) ==
    IF n = 1 THEN Scalars \cup {<<"[", "]">>, <<"{", "}">>}
    ELSE {<<"[">> \o l \o <<"]">> : l \in ValueLists(n - 1)}
         \cup {<<"{">> \o l \o <<"}">> : l \in MemberLists(n - 1)}

ValueLists(n) ==
    Values(n) \cup UNION {{v \o <<",">> \o l : v \in Values(j), l \in ValueLists(n - j)}
                          : j \in 1..(n - 1)}

MemberLists(n) ==
    LET Member(j) == {k \o <<":">> \o v : k \in Keys, v \in Values(j - 1)}
    IN IF n < 2 THEN {}
       ELSE Member(n) \cup UNION {{m \o <<",">> \o l : m \in Member(j),
                                                     l \in MemberLists(n - j)}
                                  : j \in 2..(n - 2)}

Documents == UNION {Values(n) : n \in 1..MaxTokens}

OneRemoved(t) == {SubSeq(t, 1, i - 1) \o SubSeq(t, i + 1, Len(t)) : i \in 1..Len(t)}

Inputs == Texts(MaxLen) \cup Documents \cup UNION {OneRemoved(d) : d \in Documents}

\* ------------------------------------------------------- enums and sentinels
JSMN_UNDEFINED == 0
JSMN_OBJECT == 1
JSMN_ARRAY == 2
JSMN_STRING == 4
JSMN_PRIMITIVE == 8

JSMN_SUCCESS == 0
JSMN_ERROR_NOMEM == -1
JSMN_ERROR_INVAL == -2
JSMN_ERROR_PART == -3

\* What jsmn_alloc_token hands back: a token index, NULL, or (its local tok
\* left uninitialised) a pointer to somewhere outside the token array, where
\* a write either lands in unrelated memory or faults.
NullPtr == -1
WildPtr == -2
FaultPtr == -3

NUL == "\\0"

\* A token slot whose memory was never written by the parser.
FreshTok == [type |-> JSMN_UNDEFINED, start |-> -1, end |-> -1, size |-> 0]

FreshToks(n) == [i \in 1..n |-> FreshTok]

\* ---------------------------------------------------------------- the state
VARIABLES
    js,                   \* the text handed to the parser (reader->txt)
    pc,                   \* where the caller is
    parser,               \* jsmn_parser: pos, toknext, toksuper
    tokens,               \* the token array passed to jsmn_parse (reader->tokens)
    tokens_null,          \* TRUE when that pointer is NULL
    num_tokens,           \* jsmn_parse's num_tokens
    parsemode_sizecheck,  \* jsmn_parse's parsemode_sizecheck
    count,                \* jsmn_parse's local count
    check,                \* what the last jsmn_parse call returned
    size_check,           \* what the sizing pass of the load returned
    tokens_count,         \* reader->tokens_count
    load_ret,             \* what jsmnreader_load returned
    libc,                 \* what the C library's malloc(0) and realloc(p, 0) return
    loads,                \* how many times jsmnreader_load was called on the reader
    first,                \* what the first jsmnreader_load left in the reader
    nav                   \* the last query made of the reader and its result

vars == <<js, pc, parser, tokens, tokens_null, num_tokens, parsemode_sizecheck,
          count, check, size_check, tokens_count, load_ret, libc, loads, first,
          nav>>

\* ----------------------------------------------------------------- helpers
At(text, p) == text[p + 1]

Tok(toks, i) == toks[i + 1]

\* The loops' test "parser->pos < len && js[parser->pos] != '\0'".
More(text, p) == p < Len(text) /\ At(text, p) # NUL

\* A write through a token pointer: a wild pointer's write never reaches the
\* token array.
Store(toks, ptr, t) == IF ptr >= 0 THEN [toks EXCEPT ![ptr + 1] = t] ELSE toks

Deref(toks, ptr) == IF ptr >= 0 THEN Tok(toks, ptr) ELSE FreshTok

\* "token->start != -1 && token->end == -1"
IsOpen(t) == t.start # -1 /\ t.end = -1

\* LastOpen scanning forward from index 0: the outermost open token.
LastOpen_Forward(toks, from) ==
    LET open == {i \in 0..from : IsOpen(Tok(toks, i))}
    IN IF open = {} THEN -1 ELSE CHOOSE i \in open : \A j \in open : i <= j

\* The backward scan "for (i = from; i >= 0; i--) if open(tokens[i]) break":
\* the index it stops at, -1 when it runs out.
LastOpen(toks, from) ==
    LET open == {i \in 0..from : IsOpen(Tok(toks, i))}
    IN IF open = {} THEN -1 ELSE CHOOSE i \in open : \A j \in open : j <= i

\* The same scan restricted to container tokens (the ',' case).
LastOpenContainer(toks, from) ==
    LET open == {i \in 0..from :
                    /\ Tok(toks, i).type \in {JSMN_ARRAY, JSMN_OBJECT}
                    /\ IsOpen(Tok(toks, i))}
    IN IF open = {} THEN -1 ELSE CHOOSE i \in open : \A j \in open : j <= i

jsmn_init == [pos |-> 0, toknext |-> 0, toksuper |-> -1]

\* The activation of jsmn_parse as one record: its arguments and its locals.
Frame(text, toks, isnull, n, mode) ==
    [js |-> text, tokens |-> toks, tokens_null |-> isnull, num_tokens |-> n,
     sizecheck |-> mode, parser |-> jsmn_init, count |-> 0,
     returned |-> FALSE, ret |-> 0, fault |-> FALSE]

\* The process dies on a write through a pointer to unmapped memory.
Fault(m) == [m EXCEPT !.fault = TRUE]

Return(m, v) == [m EXCEPT !.returned = TRUE, !.ret = v]

\* The for loop's increment after a case's break.
Advance(m) == [m EXCEPT !.parser.pos = @ + 1]

\* ------------------------------------------------------- jsmn_alloc_token
\* jsmn_alloc_token with its pool test off by one ("toknext > num_tokens").
jsmn_alloc_token_OffByOne(m) ==
    IF ~m.sizecheck /\ m.parser.toknext > m.num_tokens
    THEN {[ptr |-> NullPtr, m |-> m]}
    ELSE IF m.parser.toknext < m.num_tokens
    THEN {[ptr |-> m.parser.toknext,
           m |-> [m EXCEPT !.parser.toknext = @ + 1,
                           !.tokens[m.parser.toknext + 1] =
                               [@ EXCEPT !.start = -1, !.end = -1, !.size = 0]]]}
    ELSE {[ptr |-> g, m |-> m] :
             g \in {NullPtr, WildPtr, FaultPtr} \cup (0..(m.num_tokens - 1))}

\* The possible results: the pointer handed back and the parser and tokens
\* after the call.  In sizing mode with the pool exhausted the function
\* returns its uninitialised local: any pointer value.
jsmn_alloc_token(m) ==
    IF ~m.sizecheck /\ m.parser.toknext >= m.num_tokens
    THEN {[ptr |-> NullPtr, m |-> m]}
    ELSE IF m.parser.toknext < m.num_tokens
    THEN {[ptr |-> m.parser.toknext,
           m |-> [m EXCEPT !.parser.toknext = @ + 1,
                           !.tokens[m.parser.toknext + 1] =
                               [@ EXCEPT !.start = -1, !.end = -1, !.size = 0]]]}
    ELSE {[ptr |-> g, m |-> m] :
             g \in {NullPtr, WildPtr, FaultPtr} \cup (0..(m.num_tokens - 1))}

jsmn_fill_token(toks, ptr, type, start, end) ==
    Store(toks, ptr, [type |-> type, start |-> start, end |-> end, size |-> 0])

\* "tokens[parser->toksuper].size++"
BumpSuper(m) ==
    [m EXCEPT !.tokens[m.parser.toksuper + 1].size = @ + 1]

\* ---------------------------------------------------- jsmn_parse_primitive
PrimitiveEnd == {"\t", "\r", "\n", " ", ",", "]", "}"}

\* The characters the model names whose code is below 32 or at least 127
\* ("js[parser->pos] < 32 || js[parser->pos] >= 127").
Unprintable == {"\t", "\r", "\n", "\f"}

\* The scanning loop from offset p: [r, pos], r = 0 with pos at the
\* terminating character, or the error with pos put back to start.
RECURSIVE PrimitiveLoop(_, _, _)
PrimitiveLoop(text, start, p) ==
    IF ~More(text, p) THEN [r |-> JSMN_ERROR_PART, pos |-> start]
    ELSE IF At(text, p) \in PrimitiveEnd THEN [r |-> 0, pos |-> p]
    ELSE IF At(text, p) \in Unprintable THEN [r |-> JSMN_ERROR_INVAL, pos |-> start]
    ELSE PrimitiveLoop(text, start, p + 1)

\* The frames jsmn_parse_primitive can leave, each with its return value r.
jsmn_parse_primitive(m) ==
    LET start == m.parser.pos
        scan == PrimitiveLoop(m.js, start, start)
    IN IF scan.r < 0
       THEN {[r |-> scan.r, m |-> [m EXCEPT !.parser.pos = start]]}
       ELSE IF m.tokens_null
       THEN {[r |-> 0, m |-> [m EXCEPT !.parser.pos = scan.pos - 1]]}
       ELSE {IF a.ptr = NullPtr
             THEN [r |-> JSMN_ERROR_NOMEM, m |-> [a.m EXCEPT !.parser.pos = start]]
             ELSE IF a.ptr = FaultPtr THEN [r |-> 0, m |-> Fault(a.m)]
             ELSE [r |-> 0,
                   m |-> [a.m EXCEPT
                            !.tokens = jsmn_fill_token(@, a.ptr, JSMN_PRIMITIVE, start, scan.pos),
                            !.parser.pos = scan.pos - 1]]
             : a \in jsmn_alloc_token(m)}

\* ------------------------------------------------------- jsmn_parse_string
SimpleEscape == {"\"", "/", "\\", "b", "f", "r", "n", "t"}

HexDigit == {"0", "1", "2", "3", "4", "5", "6", "7", "8", "9",
             "A", "B", "C", "D", "E", "F", "a", "b", "c", "d", "e", "f"}

\* The loop over the four digits of \uXXXX from offset p: [bad, pos].
RECURSIVE HexLoop(_, _, _)
HexLoop(text, p, i) ==
    IF i < 4 /\ More(text, p)
    THEN IF At(text, p) \notin HexDigit THEN [bad |-> TRUE, pos |-> p]
         ELSE HexLoop(text, p + 1, i + 1)
    ELSE [bad |-> FALSE, pos |-> p]

\* The scanning loop from offset p (start is the opening quote): [r, pos],
\* r = 0 with pos at the closing quote, or the error with pos put back.
RECURSIVE StringLoop(_, _, _)
StringLoop(text, start, p) ==
    IF ~More(text, p) THEN [r |-> JSMN_ERROR_PART, pos |-> start]
    ELSE IF At(text, p) = "\"" THEN [r |-> 0, pos |-> p]
    ELSE IF At(text, p) = "\\" /\ p + 1 < Len(text)
    THEN LET e == At(text, p + 1)
         IN IF e \in SimpleEscape THEN StringLoop(text, start, p + 2)
            ELSE IF e = "u"
            THEN LET h == HexLoop(text, p + 2, 0)
                 IN IF h.bad THEN [r |-> JSMN_ERROR_INVAL, pos |-> start]
                    ELSE StringLoop(text, start, h.pos)
            ELSE [r |-> JSMN_ERROR_INVAL, pos |-> start]
    ELSE StringLoop(text, start, p + 1)

\* jsmn_parse_string filling the token from the opening quote ("start"
\* where the code has "start + 1").
jsmn_parse_string_WithQuote(m) ==
    LET start == m.parser.pos
        scan == StringLoop(m.js, start, start + 1)
    IN IF scan.r < 0
       THEN {[r |-> scan.r, m |-> [m EXCEPT !.parser.pos = start]]}
       ELSE IF m.tokens_null
       THEN {[r |-> 0, m |-> [m EXCEPT !.parser.pos = scan.pos]]}
       ELSE {IF a.ptr = NullPtr
             THEN [r |-> JSMN_ERROR_NOMEM, m |-> [a.m EXCEPT !.parser.pos = start]]
             ELSE IF a.ptr = FaultPtr THEN [r |-> 0, m |-> Fault(a.m)]
             ELSE [r |-> 0,
                   m |-> [a.m EXCEPT
                            !.tokens = jsmn_fill_token(@, a.ptr, JSMN_STRING, start, scan.pos),
                            !.parser.pos = scan.pos]]
             : a \in jsmn_alloc_token(m)}

\* The frames jsmn_parse_string can leave, each with its return value r.
jsmn_parse_string(m) ==
    LET start == m.parser.pos
        scan == StringLoop(m.js, start, start + 1)
    IN IF scan.r < 0
       THEN {[r |-> scan.r, m |-> [m EXCEPT !.parser.pos = start]]}
       ELSE IF m.tokens_null
       THEN {[r |-> 0, m |-> [m EXCEPT !.parser.pos = scan.pos]]}
       ELSE {IF a.ptr = NullPtr
             THEN [r |-> JSMN_ERROR_NOMEM, m |-> [a.m EXCEPT !.parser.pos = start]]
             ELSE IF a.ptr = FaultPtr THEN [r |-> 0, m |-> Fault(a.m)]
             ELSE [r |-> 0,
                   m |-> [a.m EXCEPT
                            !.tokens = jsmn_fill_token(@, a.ptr, JSMN_STRING, start + 1, scan.pos),
                            !.parser.pos = scan.pos]]
             : a \in jsmn_alloc_token(m)}

\* ------------------------------------------------------------- jsmn_parse
\* One iteration of the main loop per case of the switch; each operator
\* gives the frames the iteration can leave (more than one only where
\* jsmn_alloc_token hands back its uninitialised local).
Cur(m) == At(m.js, m.parser.pos)

\* case '{': case '['
CaseOpen(m) ==
    LET m1 == [m EXCEPT !.count = @ + 1]
    IN IF m.tokens_null THEN {Advance(m1)}
       ELSE {IF a.ptr = NullPtr THEN Return(a.m, JSMN_ERROR_NOMEM)
             ELSE IF a.m.parser.toksuper # -1
                     /\ Tok(a.m.tokens, a.m.parser.toksuper).type = JSMN_OBJECT
             THEN Return(a.m, JSMN_ERROR_INVAL)
             ELSE IF a.ptr = FaultPtr THEN Fault(a.m)
             ELSE LET m2 == IF a.m.parser.toksuper # -1 THEN BumpSuper(a.m) ELSE a.m
                      t  == Deref(m2.tokens, a.ptr)
                      m3 == [m2 EXCEPT
                               !.tokens = Store(@, a.ptr,
                                   [t EXCEPT !.type = IF Cur(m) = "{" THEN JSMN_OBJECT
                                                      ELSE JSMN_ARRAY,
                                             !.start = m.parser.pos]),
                               !.parser.toksuper = m2.parser.toknext - 1]
                  IN Advance(m3)
             : a \in jsmn_alloc_token(m1)}

\* CaseClose without the test "token->type != type".
CaseClose_NoKindCheck(m) ==
    IF m.tokens_null THEN {Advance(m)}
    ELSE LET i == LastOpen(m.tokens, m.parser.toknext - 1)
         IN IF i = -1 THEN {Return(m, JSMN_ERROR_INVAL)}
            ELSE LET toks == [m.tokens EXCEPT ![i + 1].end = m.parser.pos + 1]
                     sup  == LastOpen(toks, i)
                 IN {Advance([m EXCEPT !.tokens = toks, !.parser.toksuper = sup])}

\* case '}': case ']'
CaseClose(m) ==
    IF m.tokens_null THEN {Advance(m)}
    ELSE LET type == IF Cur(m) = "}" THEN JSMN_OBJECT ELSE JSMN_ARRAY
             i    == LastOpen(m.tokens, m.parser.toknext - 1)
         IN IF i = -1 THEN {Return(m, JSMN_ERROR_INVAL)}
            ELSE IF Tok(m.tokens, i).type # type THEN {Return(m, JSMN_ERROR_INVAL)}
            ELSE LET toks == [m.tokens EXCEPT ![i + 1].end = m.parser.pos + 1]
                     sup  == LastOpen(toks, i)
                 IN {Advance([m EXCEPT !.tokens = toks, !.parser.toksuper = sup])}

\* "count++; if (parser->toksuper != -1 && tokens != NULL) tokens[toksuper].size++"
Counted(m) ==
    LET m1 == [m EXCEPT !.count = @ + 1]
    IN IF m1.parser.toksuper # -1 /\ ~m1.tokens_null THEN BumpSuper(m1) ELSE m1

\* case '\"'
CaseString(m) ==
    {IF s.m.fault THEN s.m
     ELSE IF s.r < 0 THEN Return(s.m, s.r) ELSE Advance(Counted(s.m))
     : s \in jsmn_parse_string(m)}

\* case '\t': case '\r': case '\n': case ' '
CaseSpace(m) == {Advance(m)}

\* case ':'
CaseColon(m) == {Advance([m EXCEPT !.parser.toksuper = m.parser.toknext - 1])}

\* case ','
CaseComma(m) ==
    IF /\ ~m.tokens_null
       /\ m.parser.toksuper # -1
       /\ Tok(m.tokens, m.parser.toksuper).type # JSMN_ARRAY
       /\ Tok(m.tokens, m.parser.toksuper).type # JSMN_OBJECT
    THEN LET i == LastOpenContainer(m.tokens, m.parser.toknext - 1)
         IN {Advance(IF i = -1 THEN m ELSE [m EXCEPT !.parser.toksuper = i])}
    ELSE {Advance(m)}

PrimitiveStart == {"-", "0", "1", "2", "3", "4", "5", "6", "7", "8", "9", "t", "f", "n"}

\* case '-': case '0': ... case 'n'
CasePrimitive(m) ==
    IF /\ ~m.tokens_null
       /\ m.parser.toksuper # -1
       /\ LET t == Tok(m.tokens, m.parser.toksuper)
          IN t.type = JSMN_OBJECT \/ (t.type = JSMN_STRING /\ t.size # 0)
    THEN {Return(m, JSMN_ERROR_INVAL)}
    ELSE {IF s.m.fault THEN s.m
          ELSE IF s.r < 0 THEN Return(s.m, s.r) ELSE Advance(Counted(s.m))
          : s \in jsmn_parse_primitive(m)}

\* default
CaseDefault(m) == {Return(m, JSMN_ERROR_INVAL)}

\* AfterLoop without the scan for an unmatched opened object or array.
AfterLoop_NoOpenCheck(m) == {Return(m, m.count)}

\* After the loop.
AfterLoop(m) ==
    IF ~m.tokens_null /\ LastOpen(m.tokens, m.parser.toknext - 1) # -1
    THEN {Return(m, JSMN_ERROR_PART)}
    ELSE {Return(m, m.count)}

Whitespace == {"\t", "\r", "\n", " "}

\* The frames one step of jsmn_parse can leave.
jsmn_parse_step(m) ==
    IF ~More(m.js, m.parser.pos) THEN AfterLoop(m)
    ELSE IF Cur(m) \in {"{", "["} THEN CaseOpen(m)
    ELSE IF Cur(m) \in {"}", "]"} THEN CaseClose(m)
    ELSE IF Cur(m) = "\"" THEN CaseString(m)
    ELSE IF Cur(m) \in Whitespace THEN CaseSpace(m)
    ELSE IF Cur(m) = ":" THEN CaseColon(m)
    ELSE IF Cur(m) = "," THEN CaseComma(m)
    ELSE IF Cur(m) \in PrimitiveStart THEN CasePrimitive(m)
    ELSE CaseDefault(m)

\* A whole fill-mode parse of text with room for cap tokens, as one value:
\* the frame jsmn_parse returns with (fill mode never meets the
\* uninitialised pointer, so every step leaves exactly one frame).
RECURSIVE RunFrom(_)
RunFrom(m) == IF m.returned \/ m.fault THEN m
              ELSE RunFrom(CHOOSE n \in jsmn_parse_step(m) : TRUE)

FillParse(text, cap) == RunFrom(Frame(text, FreshToks(cap), FALSE, cap, FALSE))

\* ---------------------------------------------------------- the allocator
\* The two choices the C standard leaves to the library: malloc(0), and
\* realloc(p, 0) of a live block p, each return NULL or a block of no usable
\* size.  realloc(NULL, 0) is malloc(0).
LibCs == [malloc0 : {"null", "block"}, realloc0 : {"null", "block"}]

\* Before the reader's first allocator call is looked at.
NoLibc == [malloc0 |-> "unset", realloc0 |-> "unset"]

\* realloc(p, 0): TRUE when it returns NULL, isnull telling whether p is.
ReallocZero(l, isnull) ==
    IF isnull THEN l.malloc0 = "null" ELSE l.realloc0 = "null"

\* No jsmnreader_load has returned yet; no query has been made yet.
NoLoad == [ret |-> 1, tokens_count |-> 0, tokens |-> << >>]

NoCall == [op |-> "none"]

\* ------------------------------------------------------------ the actions
Init ==
    /\ js \in Inputs
    /\ pc = "idle"
    /\ parser = jsmn_init
    /\ tokens = << >>
    /\ tokens_null = FALSE
    /\ num_tokens = 0
    /\ parsemode_sizecheck = FALSE
    /\ count = 0
    /\ check = 0
    /\ size_check = 0
    /\ tokens_count = 0
    /\ load_ret = 0
    /\ libc = NoLibc
    /\ loads = 0
    /\ first = NoLoad
    /\ nav = NoCall

\* The running activation of jsmn_parse.
Running == pc \in {"size", "fill", "parse"}

Here ==
    [js |-> js, tokens |-> tokens, tokens_null |-> tokens_null,
     num_tokens |-> num_tokens, sizecheck |-> parsemode_sizecheck,
     parser |-> parser, count |-> count, returned |-> FALSE, ret |-> 0,
     fault |-> FALSE]

ReturnTo == IF pc = "size" THEN "size_ret"
            ELSE IF pc = "fill" THEN "fill_ret" ELSE "parse_ret"

\* One step of jsmn_parse taken into frame n.
Commit(n) ==
    /\ parser' = n.parser
    /\ tokens' = n.tokens
    /\ count' = n.count
    /\ check' = IF n.returned THEN n.ret ELSE check
    /\ pc' = IF n.fault THEN "crashed" ELSE IF n.returned THEN ReturnTo ELSE pc
    /\ UNCHANGED <<js, tokens_null, num_tokens, parsemode_sizecheck,
                   size_check, tokens_count, load_ret, libc, loads, first, nav>>

InLoop == Running /\ More(js, parser.pos)

ParseOpen ==
    /\ InLoop /\ At(js, parser.pos) \in {"{", "["}
    /\ \E n \in CaseOpen(Here) : Commit(n)

ParseClose ==
    /\ InLoop /\ At(js, parser.pos) \in {"}", "]"}
    /\ \E n \in CaseClose(Here) : Commit(n)

ParseString ==
    /\ InLoop /\ At(js, parser.pos) = "\""
    /\ \E n \in CaseString(Here) : Commit(n)

ParseSpace ==
    /\ InLoop /\ At(js, parser.pos) \in Whitespace
    /\ \E n \in CaseSpace(Here) : Commit(n)

ParseColon ==
    /\ InLoop /\ At(js, parser.pos) = ":"
    /\ \E n \in CaseColon(Here) : Commit(n)

ParseComma ==
    /\ InLoop /\ At(js, parser.pos) = ","
    /\ \E n \in CaseComma(Here) : Commit(n)

ParsePrimitive ==
    /\ InLoop /\ At(js, parser.pos) \in PrimitiveStart
    /\ \E n \in CasePrimitive(Here) : Commit(n)

ParseDefault ==
    /\ InLoop
    /\ At(js, parser.pos) \notin
         {"{", "[", "}", "]", "\"", ":", ","} \cup Whitespace \cup PrimitiveStart
    /\ \E n \in CaseDefault(Here) : Commit(n)

ParseEnd ==
    /\ Running /\ ~More(js, parser.pos)
    /\ \E n \in AfterLoop(Here) : Commit(n)

ParseStep ==
    \/ ParseOpen \/ ParseClose \/ ParseString \/ ParseSpace \/ ParseColon
    \/ ParseComma \/ ParsePrimitive \/ ParseDefault \/ ParseEnd

\* A caller of the tokenizer: jsmn_init, then jsmn_parse in fill mode over
\* an array of cap tokens.
ParseBegin ==
    /\ pc = "idle"
    /\ \E cap \in 0..Len(js) :
         /\ tokens' = FreshToks(cap)
         /\ num_tokens' = cap
    /\ tokens_null' = FALSE
    /\ parsemode_sizecheck' = FALSE
    /\ parser' = jsmn_init
    /\ count' = 0
    /\ pc' = "parse"
    /\ UNCHANGED <<js, check, size_check, tokens_count, load_ret, libc, loads,
                   first, nav>>

\* jsmnreader_load up to its first jsmn_parse call, on a reader fresh from
\* jsmnreader_init (tokens = malloc(0)) or one loaded before.  The token
\* pointer goes through realloc(p, 0); when that returns a block of no
\* usable size the sizing pass is handed it as an array of two tokens.
LoadBegin ==
    /\ pc \in {"idle", "loaded"}
    /\ loads < MaxLoads
    /\ loads' = loads + 1
    /\ \E l \in (IF loads = 0 THEN LibCs ELSE {libc}) :
         LET held   == IF loads = 0 THEN l.malloc0 = "null" ELSE tokens_null
             isnull == ReallocZero(l, held)
         IN /\ libc' = l
            /\ tokens_null' = isnull
            /\ tokens' = IF isnull THEN << >> ELSE FreshToks(2)
    /\ tokens_count' = 2
    /\ num_tokens' = 2
    /\ parsemode_sizecheck' = TRUE
    /\ parser' = jsmn_init
    /\ count' = 0
    /\ pc' = "size"
    /\ UNCHANGED <<js, check, size_check, load_ret, first, nav>>

\* jsmnreader_load between its two jsmn_parse calls.  A sizing pass that
\* wrote tokens into a block of no usable size has written over the
\* allocator's own records, and the realloc that follows may abort.
LoadResize ==
    /\ pc = "size_ret"
    /\ size_check' = check
    /\ LET n == IF check >= 0 THEN check ELSE tokens_count
       IN /\ tokens_count' = n
          /\ num_tokens' = n
          /\ tokens' = FreshToks(n)
          /\ tokens_null' = IF n = 0 THEN ReallocZero(libc, tokens_null) ELSE FALSE
    /\ parsemode_sizecheck' = FALSE
    /\ parser' = jsmn_init
    /\ count' = 0
    /\ pc' \in IF ~tokens_null /\ parser.toknext > 0 THEN {"fill", "crashed"}
               ELSE {"fill"}
    /\ UNCHANGED <<js, check, load_ret, libc, loads, first, nav>>

\* jsmnreader_load after its second jsmn_parse call.
LoadEnd ==
    /\ pc = "fill_ret"
    /\ LET r == IF check = JSMN_ERROR_NOMEM
                THEN [ret |-> JSMN_ERROR_NOMEM, tokens_count |-> tokens_count,
                      tokens |-> tokens, isnull |-> tokens_null]
                ELSE IF check \in {JSMN_ERROR_INVAL, JSMN_ERROR_PART}
                THEN [ret |-> check, tokens_count |-> 0, tokens |-> << >>,
                      isnull |-> ReallocZero(libc, tokens_null)]
                ELSE [ret |-> JSMN_SUCCESS, tokens_count |-> tokens_count,
                      tokens |-> tokens, isnull |-> tokens_null]
       IN /\ load_ret' = r.ret
          /\ tokens_count' = r.tokens_count
          /\ tokens' = r.tokens
          /\ tokens_null' = r.isnull
          /\ first' = IF loads = 1
                      THEN [ret |-> r.ret, tokens_count |-> r.tokens_count,
                            tokens |-> r.tokens]
                      ELSE first
    /\ pc' = "loaded"
    /\ UNCHANGED <<js, parser, num_tokens, parsemode_sizecheck, count, check,
                   size_check, libc, loads, nav>>

Next == LoadBegin \/ ParseStep \/ LoadResize \/ LoadEnd

Spec == Init /\ [][Next]_vars

NextParse == ParseBegin \/ ParseStep

SpecParse == Init /\ [][NextParse]_vars

\* ================================================================ the reader
\* ------------------------------------------------------- what is queried
\* The documents the queries run on: every JSON value of at most
\* MaxNavTokens tokens over three keys and two scalars, one-element arrays
\* of primitive texts, objects of two levels and of two members, a few
\* larger documents, strings with escapes, and texts that are not JSON but that jsmnreader_load
\* accepts or leaves half-tokenized.
NavScalars == {<<"1">>, <<"\"", "a", "\"">>}

NavKeys == {<<"\"", "\"">>, <<"\"", "a", "\"">>, <<"\"", "b", "\"">>}

RECURSIVE NavValues(_), NavValueLists(_), NavMemberLists(_)
NavValues(n) ==
    IF n = 1 THEN NavScalars \cup {<<"[", "]">>, <<"{", "}">>}
    ELSE {<<"[">> \o l \o <<"]">> : l \in NavValueLists(n - 1)}
         \cup {<<"{">> \o l \o <<"}">> : l \in NavMemberLists(n - 1)}

NavValueLists(n) ==
    NavValues(n)
    \cup UNION {{v \o <<",">> \o l : v \in NavValues(j), l \in NavValueLists(n - j)}
                : j \in 1..(n - 1)}

NavMemberLists(n) ==
    LET Member(j) == {k \o <<":">> \o v : k \in NavKeys, v \in NavValues(j - 1)}
    IN IF n < 2 THEN {}
       ELSE Member(n) \cup UNION {{m \o <<",">> \o l : m \in Member(j),
                                                     l \in NavMemberLists(n - j)}
                                  : j \in 2..(n - 2)}

NavDocuments == UNION {NavValues(n) : n \in 1..MaxNavTokens}

\* The texts a Primitive token can have: the three literals, texts one
\* character away from them, and every text of at most MaxDigits characters
\* over a sign and two digits.
RECURSIVE DigitTexts(_)
DigitTexts(n) ==
    IF n = 0 THEN {<< >>}
    ELSE LET shorter == DigitTexts(n - 1)
         IN shorter \cup {Append(t, c) : t \in {s \in shorter : Len(s) = n - 1},
                                         c \in {"-", "0", "5"}}

PrimitiveTexts ==
    {<<"t", "r", "u", "e">>, <<"f", "a", "l", "s", "e">>, <<"n", "u", "l", "l">>,
     <<"t", "r", "u">>, <<"t", "r", "u", "e", "e">>, <<"n", "u", "l">>,
     <<"t">>, <<"f">>, <<"n">>}
    \cup (DigitTexts(MaxDigits) \ {<< >>})

PrimitiveDocuments == {<<"[">> \o t \o <<"]">> : t \in PrimitiveTexts}

\* {"b":{"a":1},"a":1}   {"a":{"b":{"a":1}}}   [1,{"a":1},[1,1],1]
\* {"a":[1],"a":{"a":1}}   {"b":[{"a":1}],"a":"a"}   {"a":["a",1]}
NavSamples ==
    {<<"{", "\"", "b", "\"", ":", "{", "\"", "a", "\"", ":", "1", "}", ",",
       "\"", "a", "\"", ":", "1", "}">>,
     <<"{", "\"", "a", "\"", ":", "{", "\"", "b", "\"", ":", "{", "\"", "a",
       "\"", ":", "1", "}", "}", "}">>,
     <<"[", "1", ",", "{", "\"", "a", "\"", ":", "1", "}", ",", "[", "1", ",",
       "1", "]", ",", "1", "]">>,
     <<"{", "\"", "a", "\"", ":", "[", "1", "]", ",", "\"", "a", "\"", ":",
       "{", "\"", "a", "\"", ":", "1", "}", "}">>,
     <<"{", "\"", "b", "\"", ":", "[", "{", "\"", "a", "\"", ":", "1", "}",
       "]", ",", "\"", "a", "\"", ":", "\"", "a", "\"", "}">>,
     <<"{", "\"", "a", "\"", ":", "[", "\"", "a", "\"", ",", "1", "]", "}">>}

\* {k1:{k2:v}} and {k1:v,k2:1} for every choice of the keys, v a scalar in
\* the first and 1, [1] or {"a":1} in the second.
NavNested ==
    {<<"{">> \o k1 \o <<":", "{">> \o k2 \o <<":">> \o v \o <<"}", "}">>
     : k1 \in NavKeys, k2 \in NavKeys, v \in NavScalars}

NavPairs ==
    {<<"{">> \o k1 \o <<":">> \o v \o <<",">> \o k2 \o <<":", "1", "}">>
     : k1 \in NavKeys, k2 \in NavKeys,
       v \in {<<"1">>, <<"[", "1", "]">>, <<"{", "\"", "a", "\"", ":", "1", "}">>}}

\* {"a"}   {"a":}   [{"a"},1]   ["a":1]   [1,1,1   [[1   (empty)
NavMalformed ==
    {<<"{", "\"", "a", "\"", "}">>,
     <<"{", "\"", "a", "\"", ":", "}">>,
     <<"[", "{", "\"", "a", "\"", "}", ",", "1", "]">>,
     <<"[", "\"", "a", "\"", ":", "1", "]">>,
     <<"[", "1", ",", "1", ",", "1">>,
     <<"[", "[", "1">>,
     << >>}

\* What a string is made of: a letter and the escapes \n, \\ and \".
StringUnits == {<<"a">>, <<"\\", "n">>, <<"\\", "\\">>, <<"\\", "\"">>}

\* [""], ["\u0041"], ["a\nb"] and the one-element arrays of every string
\* of one or two units.
NavEscaped ==
    {<<"[", "\"">> \o body \o <<"\"", "]">>
     : body \in {<< >>, <<"\\", "u", "0", "0", "4", "1">>, <<"a", "\\", "n", "b">>}
                \cup StringUnits
                \cup {a \o b : a \in StringUnits, b \in StringUnits}}

NavInputs ==
    NavDocuments \cup PrimitiveDocuments \cup NavNested \cup NavPairs
    \cup NavSamples \cup NavEscaped \cup NavMalformed

\* The path strings: every string of at most MaxPath characters over one
\* key character and the delimiter.
RECURSIVE Paths(_)
Paths(n) ==
    IF n = 0 THEN {<< >>}
    ELSE LET shorter == Paths(n - 1)
         IN shorter \cup {Append(t, c) : t \in {s \in shorter : Len(s) = n - 1},
                                         c \in {"a", "\\"}}

\* ------------------------------------------------------------ the reader
\* jsmnreader_obj as the queries see it.
Reader == [txt |-> js, tokens |-> tokens, tokens_count |-> tokens_count]

\* An unsigned int is written as the int of the same 32 bits.
\* (unsigned int) -1, that is 4294967295
NotFound == -1

\* "a < b" between two unsigned ints.
ULess(a, b) == IF (a < 0) = (b < 0) THEN a < b ELSE b < 0

\* A query that dies reading memory far outside the reader's buffers
\* returns nothing; this stands where its result would.
Crash == -2

\* What the memory just past the token array can read as: a token of any
\* kind (JSMN_UNDEFINED standing for every value that is no kind); the size
\* is only looked at in a container.
GarbageToks ==
    [type : {JSMN_UNDEFINED, JSMN_STRING, JSMN_PRIMITIVE}, start : {0}, end : {0},
     size : {0}]
    \cup [type : {JSMN_OBJECT, JSMN_ARRAY}, start : {0}, end : {0}, size : {0, 1}]

\* "*(reader->tokens + i)": a token of the array, or, past its end, g.
TokRead(rd, i, g) == IF i < rd.tokens_count THEN Tok(rd.tokens, i) ELSE g

\* "reader->txt[p]"; the buffer ends with a terminating '\0'.
TxtAt(rd, p) == IF p < Len(rd.txt) THEN At(rd.txt, p) ELSE NUL

\* ------------------------------------------------------ jsmnreader_extract
\* The copying loop from offset r: '\\' and '\"' are unescaped, any other
\* escape is dropped with its backslash.
RECURSIVE ExtractLoop(_, _, _, _)
ExtractLoop(rd, r, end, out) ==
    IF ~ULess(r, end) THEN out
    ELSE IF TxtAt(rd, r) # "\\"
    THEN ExtractLoop(rd, r + 1, end, Append(out, TxtAt(rd, r)))
    ELSE ExtractLoop(rd, r + 2, end,
                     IF TxtAt(rd, r + 1) \in {"\\", "\""}
                     THEN Append(out, TxtAt(rd, r + 1)) ELSE out)

\* jsmnreader_extract(start, end, reader).  fault: the loop runs off the
\* text (an unresolved end of -1 is 4294967295).
\* A result of no characters is the malloc(0) block itself, never written:
\* what it reads as is not determined.
jsmnreader_extract(rd, start, end) ==
    IF ULess(start, end) /\ ULess(Len(rd.txt) + 1, end)
    THEN [txt |-> << >>, fault |-> TRUE]
    ELSE [txt |-> ExtractLoop(rd, start, end, << >>), fault |-> FALSE]

ExtractTok(rd, t) == jsmnreader_extract(rd, t.start, t.end)

Uninitialised(ex) == ~ex.fault /\ Len(ex.txt) = 0

\* What a never-written block can read as, as far as a comparison with a
\* path segment can tell: an empty string, the key "a", something else.
UninitTexts == {<< >>, <<"a">>, <<"?">>}

\* "strcmp(segment, ex_txt) == 0"; u is what ex_txt reads as when it was
\* never written.
StrEq(segment, ex, u) == segment = (IF Uninitialised(ex) THEN u ELSE ex.txt)

\* ------------------------------------------------ jsmnreader_tree_parsepath
\* The loop of jsmnreader_tree_parsepath keeping no segment that is empty.
RECURSIVE ParsePathLoop_NoEmptySegment(_, _, _, _)
ParsePathLoop_NoEmptySegment(mypath, i, temp_str, path_list) ==
    LET kept == IF temp_str = << >> THEN path_list ELSE Append(path_list, temp_str)
    IN IF i < Len(mypath) /\ At(mypath, i) = "\\"
       THEN ParsePathLoop_NoEmptySegment(mypath, i + 1, << >>, kept)
       ELSE IF i >= Len(mypath) THEN kept
       ELSE ParsePathLoop_NoEmptySegment(mypath, i + 1,
                                         Append(temp_str, At(mypath, i)), path_list)

RECURSIVE ParsePathLoop(_, _, _, _)
ParsePathLoop(mypath, i, temp_str, path_list) ==
    IF i < Len(mypath) /\ At(mypath, i) = "\\"
    THEN ParsePathLoop(mypath, i + 1, << >>, Append(path_list, temp_str))
    ELSE IF i >= Len(mypath) THEN Append(path_list, temp_str)
    ELSE ParsePathLoop(mypath, i + 1, Append(temp_str, At(mypath, i)), path_list)

\* jsmnreader_tree_parsepath without its test for the empty string.
jsmnreader_tree_parsepath_NoEmptyTest(mypath) ==
    ParsePathLoop(mypath, 0, << >>, << >>)

\* The segments of a path string; none for the empty string.
jsmnreader_tree_parsepath(mypath) ==
    IF Len(mypath) = 0 THEN << >> ELSE ParsePathLoop(mypath, 0, << >>, << >>)

\* ----------------------------------------------------- jsmnreader_dataskip
\* jsmnreader_dataskip(&r, ..., mode, reader): the value it leaves in r, and
\* oob, whether it read a token past the end of the array.  mode 0 walks
\* key/value pairs and looks at the token after the key, mode 1 walks
\* elements.
RECURSIVE jsmnreader_dataskip(_, _, _, _), DataSkipLoop(_, _, _, _, _, _)
\* jsmnreader_dataskip stepping over the container's own token and nothing
\* of what is inside it.
jsmnreader_dataskip_Shallow(rd, r, mode, g) ==
    [r |-> r + 1, oob |-> r >= rd.tokens_count]

jsmnreader_dataskip(rd, r, mode, g) ==
    DataSkipLoop(rd, r + 1, TokRead(rd, r, g).size, mode, g, r >= rd.tokens_count)

\* The loop of jsmnreader_dataskip stepping over one token for a scalar in
\* either mode, as if an Object held elements.
RECURSIVE DataSkipLoop_OneStep(_, _, _, _, _, _)
DataSkipLoop_OneStep(rd, r, objs_sub, mode, g, oob) ==
    IF ~(r < rd.tokens_count /\ objs_sub > 0) THEN [r |-> r, oob |-> oob]
    ELSE LET at   == IF mode = 0 THEN r + 1 ELSE r
             type == TokRead(rd, at, g).type
             seen == oob \/ at >= rd.tokens_count
         IN IF type \in {JSMN_OBJECT, JSMN_ARRAY}
            THEN LET in == jsmnreader_dataskip(rd, at, IF type = JSMN_OBJECT THEN 0 ELSE 1, g)
                 IN DataSkipLoop_OneStep(rd, in.r, objs_sub - 1, mode, g, seen \/ in.oob)
            ELSE DataSkipLoop_OneStep(rd, r + 1, objs_sub - 1, mode, g, seen)

DataSkipLoop(rd, r, objs_sub, mode, g, oob) ==
    IF ~(r < rd.tokens_count /\ objs_sub > 0) THEN [r |-> r, oob |-> oob]
    ELSE LET at   == IF mode = 0 THEN r + 1 ELSE r
             type == TokRead(rd, at, g).type
             seen == oob \/ at >= rd.tokens_count
         IN IF type \in {JSMN_OBJECT, JSMN_ARRAY}
            THEN LET in == jsmnreader_dataskip(rd, at, IF type = JSMN_OBJECT THEN 0 ELSE 1, g)
                 IN DataSkipLoop(rd, in.r, objs_sub - 1, mode, g, seen \/ in.oob)
            ELSE DataSkipLoop(rd, IF mode = 1 THEN r + 1 ELSE r + 2, objs_sub - 1,
                              mode, g, seen)

\* ----------------------------------------------------- jsmnreader_tree_get_x
\* "in_offset": the reader holds tokens, offset is one of them, and it is
\* an Object or an Array.
InOffset(rd, offset) ==
    /\ rd.tokens_count > 0
    /\ offset < rd.tokens_count
    /\ Tok(rd.tokens, offset).type \in {JSMN_OBJECT, JSMN_ARRAY}

\* The while loop of jsmnreader_tree_get_x from its state (i, objs, r): the
\* value of loc at the return, and whether a token past the end of the
\* array was read.  g is what the memory past the token array reads as, u
\* what a never-written text reads as.
RECURSIVE TreeGetLoop(_, _, _, _, _, _, _, _)
TreeGetLoop(rd, path_list, i, objs, r, g, u, oob) ==
    IF ~(objs > 0 /\ r < rd.tokens_count) THEN [ret |-> NotFound, oob |-> oob]
    ELSE
      LET path_count == Len(path_list)
          ex_txt     == ExtractTok(rd, Tok(rd.tokens, r))
          selected_token ==
              /\ path_count > 0 /\ i < path_count
              /\ StrEq(path_list[i + 1], ex_txt, u)
          value == TokRead(rd, r + 1, g)
          seen  == oob \/ r + 1 >= rd.tokens_count
          skip(mode) == jsmnreader_dataskip(rd, r + 1, mode, g)
      IN IF ex_txt.fault THEN [ret |-> Crash, oob |-> oob]
         ELSE IF value.type \in {JSMN_PRIMITIVE, JSMN_STRING}
         THEN IF selected_token
              THEN [ret |-> IF ExtractTok(rd, value).fault THEN Crash ELSE r + 1,
                    oob |-> seen]
              ELSE TreeGetLoop(rd, path_list, i, objs - 1, r + 2, g, u, seen)
         ELSE IF value.type \in {JSMN_OBJECT, JSMN_ARRAY}
         THEN IF ~selected_token
              THEN LET mode == IF value.type = JSMN_OBJECT THEN 0 ELSE 1
                   IN TreeGetLoop(rd, path_list, i, objs - 1, skip(mode).r, g, u,
                                  seen \/ skip(mode).oob)
              ELSE IF i = path_count - 1 THEN [ret |-> r + 1, oob |-> seen]
              ELSE IF value.type = JSMN_OBJECT
              THEN TreeGetLoop(rd, path_list, i + 1, value.size, r + 2, g, u, seen)
              ELSE [ret |-> NotFound, oob |-> seen]
         ELSE [ret |-> NotFound, oob |-> seen]

\* jsmnreader_tree_get_x(mypath, offset, reader).
jsmnreader_tree_get_x(rd, mypath, offset, g, u) ==
    IF ~InOffset(rd, offset) THEN [ret |-> 0, oob |-> FALSE]
    ELSE TreeGetLoop(rd, jsmnreader_tree_parsepath(mypath), 0,
                     Tok(rd.tokens, offset).size, offset + 1, g, u, FALSE)

\* ------------------------------------------------ the accessors' range test
\* "reader->tokens_count > 0" and "index >= 0 && index < reader->tokens_count"
InRange(rd, index) == rd.tokens_count > 0 /\ index < rd.tokens_count

jsmnreader_token_get_object(rd, index) ==
    IF InRange(rd, index) /\ Tok(rd.tokens, index).type = JSMN_OBJECT
    THEN index ELSE NotFound

jsmnreader_token_get_array(rd, index) ==
    IF InRange(rd, index) /\ Tok(rd.tokens, index).type = JSMN_ARRAY
    THEN index ELSE NotFound

\* jsmnreader_token_size without its test of the token's kind.
jsmnreader_token_size_AnyKind(rd, index) ==
    IF InRange(rd, index) THEN Tok(rd.tokens, index).size ELSE 0

jsmnreader_token_size(rd, index) ==
    IF InRange(rd, index)
       /\ Tok(rd.tokens, index).type \in {JSMN_OBJECT, JSMN_ARRAY}
    THEN Tok(rd.tokens, index).size ELSE 0

\* -------------------------------------------- jsmnreader_token_array_tokens
\* The walk over the elements of the Array at offset, shared by
\* jsmnreader_token_array_tokens and jsmnreader_token_array: the indices
\* "*(edit + i) = r" stores ("if (i == index) return r" meets), in order.
RECURSIVE ArrayWalk(_, _, _, _, _)
ArrayWalk(rd, objs, r, g, out) ==
    IF ~(objs > 0 /\ r < rd.tokens_count) THEN out
    ELSE LET type == Tok(rd.tokens, r).type
             here == [out EXCEPT !.list = Append(@, r)]
         IN IF type \in {JSMN_STRING, JSMN_PRIMITIVE}
            THEN ArrayWalk(rd, objs - 1, r + 1, g, here)
            ELSE IF type \in {JSMN_OBJECT, JSMN_ARRAY}
            THEN LET in == jsmnreader_dataskip(rd, r, IF type = JSMN_OBJECT THEN 0 ELSE 1, g)
                 IN ArrayWalk(rd, objs - 1, in.r, g,
                              [here EXCEPT !.oob = @ \/ in.oob])
            ELSE ArrayWalk(rd, objs - 1, r, g, out)

\* jsmnreader_token_array_tokens(&arrays, &arrays_size, offset, reader):
\* arrays_size, the entries written to arrays from its start (the other
\* arrays_size - Len(list) entries are never written), and oob.
jsmnreader_token_array_tokens(rd, offset, g) ==
    IF jsmnreader_token_get_array(rd, offset) = NotFound
    THEN [arrays_size |-> 0, list |-> << >>, oob |-> FALSE]
    ELSE LET size == Tok(rd.tokens, offset).size
             walk == ArrayWalk(rd, size, offset + 1, g, [list |-> << >>, oob |-> FALSE])
         IN [arrays_size |-> size, list |-> walk.list, oob |-> walk.oob]

\* jsmnreader_token_array(index, offset, reader)
jsmnreader_token_array(rd, index, offset, g) ==
    IF jsmnreader_token_get_array(rd, offset) = NotFound
    THEN [ret |-> NotFound, oob |-> FALSE]
    ELSE LET size == Tok(rd.tokens, offset).size
             walk == ArrayWalk(rd, size, offset + 1, g, [list |-> << >>, oob |-> FALSE])
         IN IF index < Len(walk.list)
            THEN [ret |-> walk.list[index + 1],
                  oob |-> ArrayWalk(rd, index, offset + 1, g,
                                    [list |-> << >>, oob |-> FALSE]).oob]
            ELSE [ret |-> NotFound, oob |-> walk.oob]

\* ------------------------------------------- jsmnreader_token_object_tokens
JSMNR_BOTH == 0
JSMNR_KEYONLY == 1
JSMNR_ITEMONLY == 2

\* PairEntries with the value put before its key.
PairEntries_ValueFirst(r, read_setting) ==
    (IF read_setting \in {JSMNR_BOTH, JSMNR_ITEMONLY} THEN <<r + 1>> ELSE << >>)
    \o (IF read_setting \in {JSMNR_BOTH, JSMNR_KEYONLY} THEN <<r>> ELSE << >>)

\* The entries one pair at r adds under read_setting.
PairEntries(r, read_setting) ==
    (IF read_setting \in {JSMNR_BOTH, JSMNR_KEYONLY} THEN <<r>> ELSE << >>)
    \o (IF read_setting \in {JSMNR_BOTH, JSMNR_ITEMONLY} THEN <<r + 1>> ELSE << >>)

\* The while loop of jsmnreader_token_object_tokens (path_count = 0, i = 0).
\* The default case of its switch leaves objs and r as they are: the loop
\* then appends the same pair until memory runs out (hang).
RECURSIVE ObjectWalk(_, _, _, _, _, _)
ObjectWalk(rd, objs, r, read_setting, g, out) ==
    IF ~(objs > 0 /\ r < rd.tokens_count) THEN out
    ELSE LET type == TokRead(rd, r + 1, g).type
             here == [out EXCEPT !.list = @ \o PairEntries(r, read_setting),
                                 !.oob = @ \/ r + 1 >= rd.tokens_count]
         IN IF ExtractTok(rd, Tok(rd.tokens, r)).fault
            THEN [out EXCEPT !.crash = TRUE]
            ELSE IF type \in {JSMN_PRIMITIVE, JSMN_STRING}
            THEN ObjectWalk(rd, objs - 1, r + 2, read_setting, g, here)
            ELSE IF type \in {JSMN_OBJECT, JSMN_ARRAY}
            THEN LET in == jsmnreader_dataskip(rd, r + 1,
                                               IF type = JSMN_OBJECT THEN 0 ELSE 1, g)
                 IN ObjectWalk(rd, objs - 1, in.r, read_setting, g,
                               [here EXCEPT !.oob = @ \/ in.oob])
            ELSE [here EXCEPT !.hang = TRUE]

\* jsmnreader_token_object_tokens(&arrays, &arrays_size, offset,
\* read_setting, reader): the list it builds.
jsmnreader_token_object_tokens(rd, offset, read_setting, g) ==
    LET none == [list |-> << >>, oob |-> FALSE, hang |-> FALSE, crash |-> FALSE]
    IN IF InRange(rd, offset) /\ Tok(rd.tokens, offset).type = JSMN_OBJECT
       THEN ObjectWalk(rd, Tok(rd.tokens, offset).size, offset + 1,
                       read_setting, g, none)
       ELSE none

\* jsmnreader_token_object(index, offset, read_setting, reader)
jsmnreader_token_object(rd, index, offset, read_setting, g) ==
    LET arrays == jsmnreader_token_object_tokens(rd, offset, read_setting, g)
    IN [ret |-> IF arrays.hang \/ arrays.crash THEN Crash
                ELSE IF index < Len(arrays.list) THEN arrays.list[index + 1]
                ELSE NotFound,
        oob |-> arrays.oob]

\* --------------------------------------------------------- jsmnreader_load
\* Every frame a jsmn_parse activation can return with or die in.
RECURSIVE RunAll(_)
RunAll(ms) ==
    IF \A m \in ms : m.returned \/ m.fault THEN ms
    ELSE RunAll(UNION {IF m.returned \/ m.fault THEN {m} ELSE jsmn_parse_step(m)
                       : m \in ms})

\* What a jsmnreader_load call ending in check leaves in the reader.
LoadResult(fill) ==
    IF fill.ret = JSMN_ERROR_NOMEM
    THEN [crashed |-> FALSE, ret |-> JSMN_ERROR_NOMEM,
          tokens_count |-> fill.num_tokens, tokens |-> fill.tokens]
    ELSE IF fill.ret \in {JSMN_ERROR_INVAL, JSMN_ERROR_PART}
    THEN [crashed |-> FALSE, ret |-> fill.ret, tokens_count |-> 0, tokens |-> << >>]
    ELSE [crashed |-> FALSE, ret |-> JSMN_SUCCESS,
          tokens_count |-> fill.num_tokens, tokens |-> fill.tokens]

Crashed == [crashed |-> TRUE, ret |-> 0, tokens_count |-> 0, tokens |-> << >>]

\* jsmnreader_load(str, str_size, reader) on a reader fresh from
\* jsmnreader_init, under the library l: everything the call can come to.
jsmnreader_load(text, l) ==
    LET isnull == ReallocZero(l, l.malloc0 = "null")
        sized  == RunAll({Frame(text, IF isnull THEN << >> ELSE FreshToks(2),
                                isnull, 2, TRUE)})
        After(s) ==
            LET n    == IF s.ret >= 0 THEN s.ret ELSE 2
                fill == RunFrom(Frame(text, FreshToks(n),
                                      IF n = 0 THEN ReallocZero(l, isnull) ELSE FALSE,
                                      n, FALSE))
            IN (IF fill.fault THEN {Crashed} ELSE {LoadResult(fill)})
               \cup (IF ~isnull /\ s.parser.toknext > 0 THEN {Crashed} ELSE {})
    IN UNION {IF s.fault THEN {Crashed} ELSE After(s) : s \in sized}

\* ------------------------------------------------- the reader's operations
\* A reader fresh from jsmnreader_init and the text it is about to be given.
InitNav ==
    /\ js \in NavInputs
    /\ pc = "idle"
    /\ parser = jsmn_init
    /\ tokens = << >>
    /\ tokens_null = FALSE
    /\ num_tokens = 0
    /\ parsemode_sizecheck = FALSE
    /\ count = 0
    /\ check = 0
    /\ size_check = 0
    /\ tokens_count = 0
    /\ load_ret = 0
    /\ libc = NoLibc
    /\ loads = 0
    /\ first = NoLoad
    /\ nav = NoCall

\* jsmnreader_load as one step.
NavLoad ==
    /\ pc = "idle"
    /\ nav = NoCall
    /\ \E l \in LibCs : \E out \in jsmnreader_load(js, l) :
         /\ pc' = IF out.crashed THEN "crashed" ELSE "loaded"
         /\ load_ret' = out.ret
         /\ tokens_count' = out.tokens_count
         /\ tokens' = out.tokens
    /\ loads' = loads + 1
    /\ UNCHANGED <<js, parser, tokens_null, num_tokens, parsemode_sizecheck,
                   count, check, size_check, libc, first, nav>>

\* jsmnreader_free(reader): the array is gone, and tokens_count = 0 keeps
\* every operation from reading it.
ReaderFree ==
    /\ pc = "loaded"
    /\ nav = NoCall
    /\ tokens_count' = 0
    /\ tokens' = << >>
    /\ pc' = "freed"
    /\ UNCHANGED <<js, parser, tokens_null, num_tokens, parsemode_sizecheck,
                   count, check, size_check, load_ret, libc, loads, first, nav>>

\* The reader can be queried: made by jsmnreader_init, and whatever was
\* loaded into it or released since.  A query leaves the reader as it is,
\* so one query is followed from each state of the reader, and nothing
\* after it.
Queryable == pc \in {"idle", "loaded", "freed"} /\ nav = NoCall

Query(call) ==
    /\ nav' = call
    /\ UNCHANGED <<js, pc, parser, tokens, tokens_null, num_tokens,
                   parsemode_sizecheck, count, check, size_check, tokens_count,
                   load_ret, libc, loads, first>>

\* The tokens whose text jsmnreader_extract hands back never written.
Unwritten(rd) ==
    {r \in 0..(rd.tokens_count - 1) : Uninitialised(ExtractTok(rd, Tok(rd.tokens, r)))}

\* The token indices a caller passes: every token, and one past the last.
Offsets == 0..tokens_count

\* What never-written texts can read as in one call on rd.
Reads(rd) == IF Unwritten(rd) = {} THEN {<< >>} ELSE UninitTexts

\* What the memory past the token array can read as in a call that with
\* probe as that memory reads it (oob) or does not.
Beyond(oob) == IF oob THEN GarbageToks ELSE {FreshTok}

\* Every way jsmnreader_tree_get_x(mypath, offset, reader) can go: what it
\* returns, and whether it read a token past the end of the array.
TreeGetOutcomes(rd, mypath, offset) ==
    UNION {{jsmnreader_tree_get_x(rd, mypath, offset, g, u)
            : g \in Beyond(jsmnreader_tree_get_x(rd, mypath, offset, FreshTok, u).oob)}
           : u \in Reads(rd)}

\* Every result jsmnreader_tree_get_x(mypath, offset, reader) can give.
TreeGetResults(rd, mypath, offset) ==
    {out.ret : out \in TreeGetOutcomes(rd, mypath, offset)}

TreeGetX ==
    /\ Queryable
    /\ \E mypath \in Paths(MaxPath), offset \in Offsets :
         \E out \in TreeGetOutcomes(Reader, mypath, offset) :
           Query([op |-> "tree_get_x", mypath |-> mypath, offset |-> offset,
                  ret |-> out.ret, oob |-> out.oob])

\* What a never-written entry of a list can read as.
JunkEntries == {0, NotFound}

\* "*arrays" as the caller reads it up to arrays_size: the entries written,
\* then junk for each entry that never was.
Filled(out, junk) ==
    out.list \o [i \in 1..(out.arrays_size - Len(out.list)) |-> junk]

\* Every list jsmnreader_token_array_tokens(&arrays, &arrays_size, offset,
\* reader) can hand back, and whether the walk read a token past the end of
\* the array.
ArrayTokensOutcomes(rd, offset) ==
    UNION {LET out == jsmnreader_token_array_tokens(rd, offset, g)
           IN {[arrays |-> Filled(out, junk), oob |-> out.oob]
               : junk \in IF out.arrays_size > Len(out.list) THEN JunkEntries ELSE {0}}
           : g \in Beyond(jsmnreader_token_array_tokens(rd, offset, FreshTok).oob)}

\* The lists among them.
ArrayTokensResults(rd, offset) ==
    {out.arrays : out \in ArrayTokensOutcomes(rd, offset)}

TokenArrayTokens ==
    /\ Queryable
    /\ \E offset \in Offsets :
         \E out \in ArrayTokensOutcomes(Reader, offset) :
           Query([op |-> "token_array_tokens", offset |-> offset,
                  arrays |-> out.arrays, oob |-> out.oob])

\* Every result jsmnreader_token_array(index, offset, reader) can give.
ArrayResults(rd, index, offset) ==
    {jsmnreader_token_array(rd, index, offset, g).ret
     : g \in Beyond(jsmnreader_token_array(rd, index, offset, FreshTok).oob)}

TokenArray ==
    /\ Queryable
    /\ \E offset \in Offsets, index \in Offsets :
         \E ret \in ArrayResults(Reader, index, offset) :
           Query([op |-> "token_array", index |-> index, offset |-> offset,
                  ret |-> ret])

\* Every way jsmnreader_token_object_tokens(&arrays, &arrays_size, offset,
\* read_setting, reader) can end: the list it hands back, or no return
\* (hang: the loop goes round without end), and whether the walk read a
\* token past the end of the array.
ObjectTokensResults(rd, offset, read_setting) ==
    {LET out == jsmnreader_token_object_tokens(rd, offset, read_setting, g)
     IN [arrays |-> IF out.hang \/ out.crash THEN << >> ELSE out.list,
         returns |-> ~(out.hang \/ out.crash), hang |-> out.hang, oob |-> out.oob]
     : g \in Beyond(jsmnreader_token_object_tokens(rd, offset, read_setting,
                                                   FreshTok).oob)}

TokenObjectTokens ==
    /\ Queryable
    /\ \E offset \in Offsets,
          read_setting \in {JSMNR_BOTH, JSMNR_KEYONLY, JSMNR_ITEMONLY} :
         \E out \in ObjectTokensResults(Reader, offset, read_setting) :
           Query([op |-> "token_object_tokens", offset |-> offset,
                  read_setting |-> read_setting, arrays |-> out.arrays,
                  returns |-> out.returns, hang |-> out.hang, oob |-> out.oob])

\* ------------------------------------------------------------ the accessors
\* The tokens an accessor reads: the one at index, once the range test has
\* passed.
TokensRead(rd, index) == IF InRange(rd, index) THEN {index} ELSE {}

\* The text of token index as jsmnreader_extract hands it back, u standing
\* for a block never written.
RawStr(rd, index, u) ==
    LET ex == ExtractTok(rd, Tok(rd.tokens, index))
    IN IF Uninitialised(ex) THEN u ELSE ex.txt

Digits == <<"0", "1", "2", "3", "4", "5", "6", "7", "8", "9">>

\* "raw_str[p]" is one of cs; the terminating '\0' is none.
CharIn(raw_str, p, cs) == p < Len(raw_str) /\ At(raw_str, p) \in cs

IsDigit == {Digits[i] : i \in 1..10}

DigitValue(c) == (CHOOSE i \in 1..10 : Digits[i] = c) - 1

\* The digits from position p on, read in base 10 on top of acc.
RECURSIVE DigitsLoop(_, _, _)
DigitsLoop(text, p, acc) ==
    IF CharIn(text, p, IsDigit) THEN DigitsLoop(text, p + 1, acc * 10 + DigitValue(At(text, p)))
    ELSE acc

\* strtol(text, NULL, 10) on a text that starts with no white space: an
\* optional sign, then the digits up to the first character that is none;
\* 0 when there is no digit.  The texts of the model are too short to leave
\* the range of long.
strtol(text) ==
    IF CharIn(text, 0, {"-"}) THEN 0 - DigitsLoop(text, 1, 0)
    ELSE IF CharIn(text, 0, {"+"}) THEN DigitsLoop(text, 1, 0)
    ELSE DigitsLoop(text, 0, 0)

\* strtoul that gives 0 for a text with a minus sign instead of negating
\* the value in the unsigned type.
strtoul_NoNegation(text) == IF CharIn(text, 0, {"-"}) THEN 0 ELSE strtol(text)

\* strtoul(text, NULL, 10) converted to unsigned int: the same digits, a
\* negative value wrapping around.
strtoul(text) == strtol(text)

\* (float) strtod(text, NULL) on a text with neither fraction nor exponent
\* that is not one of strtod's words (inf, infinity, nan) and no
\* hexadecimal number: the value of its sign and leading digits.
strtod(text) == strtol(text)

\* "raw_str[0] == c" and "strcmp(raw_str, word) == 0"
IsWord(raw_str, c, word) == CharIn(raw_str, 0, {c}) /\ raw_str = word

True == <<"t", "r", "u", "e">>
False == <<"f", "a", "l", "s", "e">>
Null == <<"n", "u", "l", "l">>

\* jsmnreader_token_get_int without its strcmp: any text that starts with
\* a t is 1.
jsmnreader_token_get_int_FirstLetter(rd, index, u) ==
    IF InRange(rd, index) /\ Tok(rd.tokens, index).type = JSMN_PRIMITIVE
    THEN LET raw_str == RawStr(rd, index, u)
         IN IF CharIn(raw_str, 0, {"t"}) THEN 1 ELSE strtol(raw_str)
    ELSE 0

jsmnreader_token_get_int(rd, index, u) ==
    IF InRange(rd, index) /\ Tok(rd.tokens, index).type = JSMN_PRIMITIVE
    THEN LET raw_str == RawStr(rd, index, u)
         IN IF IsWord(raw_str, "t", True) THEN 1 ELSE strtol(raw_str)
    ELSE 0

jsmnreader_token_get_uint(rd, index, u) ==
    IF InRange(rd, index) /\ Tok(rd.tokens, index).type = JSMN_PRIMITIVE
    THEN LET raw_str == RawStr(rd, index, u)
         IN IF IsWord(raw_str, "t", True) THEN 1 ELSE strtoul(raw_str)
    ELSE 0

jsmnreader_token_get_float(rd, index, u) ==
    IF InRange(rd, index) /\ Tok(rd.tokens, index).type = JSMN_PRIMITIVE
    THEN LET raw_str == RawStr(rd, index, u)
         IN IF IsWord(raw_str, "t", True) THEN 1 ELSE strtod(raw_str)
    ELSE 0

\* The string handed back; the literal "" is the empty sequence.
jsmnreader_token_get_string(rd, index, u) ==
    IF InRange(rd, index)
       /\ Tok(rd.tokens, index).type \in {JSMN_STRING, JSMN_PRIMITIVE}
    THEN RawStr(rd, index, u)
    ELSE << >>

jsmnreader_token_is_null(rd, index, u) ==
    IF InRange(rd, index) /\ Tok(rd.tokens, index).type = JSMN_PRIMITIVE
       /\ IsWord(RawStr(rd, index, u), "n", Null)
    THEN 1 ELSE 0

jsmnreader_token_is_special(rd, index, u) ==
    IF InRange(rd, index) /\ Tok(rd.tokens, index).type = JSMN_PRIMITIVE
       /\ LET raw_str == RawStr(rd, index, u)
          IN \/ IsWord(raw_str, "n", Null)
             \/ IsWord(raw_str, "t", True)
             \/ IsWord(raw_str, "f", False)
    THEN 1 ELSE 0

\* A String is extracted with its quotes, a Primitive as it is, both
\* through jsmnreader_extract.
jsmnreader_token_get_raw(rd, index, u) ==
    IF ~InRange(rd, index) THEN << >>
    ELSE LET t == Tok(rd.tokens, index)
             ex == IF t.type = JSMN_STRING
                   THEN jsmnreader_extract(rd, t.start - 1, t.end + 1)
                   ELSE ExtractTok(rd, t)
         IN IF t.type \in {JSMN_STRING, JSMN_PRIMITIVE}
            THEN IF Uninitialised(ex) THEN u ELSE ex.txt
            ELSE << >>

\* An accessor was called: its result, and the tokens it read.
Access(name, index, ret) ==
    Query([op |-> name, index |-> index, ret |-> ret,
           reads |-> TokensRead(Reader, index)])

TokenGetInt ==
    /\ Queryable
    /\ \E index \in Offsets, u \in Reads(Reader) :
         Access("token_get_int", index, jsmnreader_token_get_int(Reader, index, u))

TokenGetUint ==
    /\ Queryable
    /\ \E index \in Offsets, u \in Reads(Reader) :
         Access("token_get_uint", index, jsmnreader_token_get_uint(Reader, index, u))

TokenGetFloat ==
    /\ Queryable
    /\ \E index \in Offsets, u \in Reads(Reader) :
         Access("token_get_float", index, jsmnreader_token_get_float(Reader, index, u))

TokenIsNull ==
    /\ Queryable
    /\ \E index \in Offsets, u \in Reads(Reader) :
         Access("token_is_null", index, jsmnreader_token_is_null(Reader, index, u))

TokenIsSpecial ==
    /\ Queryable
    /\ \E index \in Offsets, u \in Reads(Reader) :
         Access("token_is_special", index, jsmnreader_token_is_special(Reader, index, u))

TokenGetObject ==
    /\ Queryable
    /\ \E index \in Offsets :
         Access("token_get_object", index, jsmnreader_token_get_object(Reader, index))

TokenGetArray ==
    /\ Queryable
    /\ \E index \in Offsets :
         Access("token_get_array", index, jsmnreader_token_get_array(Reader, index))

TokenSize ==
    /\ Queryable
    /\ \E index \in Offsets :
         Access("token_size", index, jsmnreader_token_size(Reader, index))

\* ------------------------------------------------ the strings handed back
\* What a returned char * points to: a block jsmnreader_extract wrote at
\* least a terminated character to ("extracted"); a malloc(0) result never
\* written, which is a block ("unwritten") or NULL ("null") as the library
\* has it; the string literal "" ("literal"); or nothing at all, the local
\* variable having never been assigned ("indeterminate").
Malloc0 == {IF l.malloc0 = "null" THEN "null" ELSE "unwritten" : l \in LibCs}

\* The pointer jsmnreader_extract returns: its malloc(0) result m when the
\* loop copied nothing.
ExtractPtr(ex, m) == IF Uninitialised(ex) THEN m ELSE "extracted"

jsmnreader_token_get_string_ptr(rd, index, m) ==
    IF InRange(rd, index)
       /\ Tok(rd.tokens, index).type \in {JSMN_STRING, JSMN_PRIMITIVE}
    THEN ExtractPtr(ExtractTok(rd, Tok(rd.tokens, index)), m)
    ELSE "literal"

jsmnreader_token_get_raw_ptr(rd, index, m) ==
    IF ~InRange(rd, index) THEN "literal"
    ELSE LET t == Tok(rd.tokens, index)
         IN IF t.type = JSMN_STRING
            THEN ExtractPtr(jsmnreader_extract(rd, t.start - 1, t.end + 1), m)
            ELSE IF t.type = JSMN_PRIMITIVE THEN ExtractPtr(ExtractTok(rd, t), m)
            ELSE "literal"

\* A string accessor was called: the characters and the pointer it returned.
AccessString(name, index, ret, ptr) ==
    Query([op |-> name, index |-> index, ret |-> ret,
           reads |-> TokensRead(Reader, index), ptr |-> ptr])

TokenGetString ==
    /\ Queryable
    /\ \E index \in Offsets, u \in Reads(Reader), m \in Malloc0 :
         AccessString("token_get_string", index,
                      jsmnreader_token_get_string(Reader, index, u),
                      jsmnreader_token_get_string_ptr(Reader, index, m))

TokenGetRaw ==
    /\ Queryable
    /\ \E index \in Offsets, u \in Reads(Reader), m \in Malloc0 :
         AccessString("token_get_raw", index,
                      jsmnreader_token_get_raw(Reader, index, u),
                      jsmnreader_token_get_raw_ptr(Reader, index, m))

\* ------------------------------------- jsmnreader_tree_get_string, _get_raw
\* "type = (reader->tokens + loc)->type" for the loc jsmnreader_tree_get_x
\* returned, which is a token of the array or, for a reader without tokens
\* (the 0 of an invalid scope), whatever the memory there holds.
TypesAt(rd, loc) ==
    IF loc >= 0 /\ loc < rd.tokens_count THEN {Tok(rd.tokens, loc).type}
    ELSE {g.type : g \in GarbageToks}

\* jsmnreader_tree_get_string after jsmnreader_tree_get_x returned loc and
\* type was read: [txt, ptr].  txt is assigned on two of the three paths
\* only: for a token that is neither String nor Primitive the pointer
\* returned is the local variable as it was.
jsmnreader_tree_get_string(rd, loc, type, u, m) ==
    IF loc # NotFound
    THEN IF type \in {JSMN_STRING, JSMN_PRIMITIVE}
         THEN [txt |-> jsmnreader_token_get_string(rd, loc, u),
               ptr |-> jsmnreader_token_get_string_ptr(rd, loc, m)]
         ELSE [txt |-> << >>, ptr |-> "indeterminate"]
    ELSE [txt |-> << >>, ptr |-> m]

jsmnreader_tree_get_raw(rd, loc, type, u, m) ==
    IF loc # NotFound
    THEN IF type \in {JSMN_STRING, JSMN_PRIMITIVE}
         THEN [txt |-> jsmnreader_token_get_raw(rd, loc, u),
               ptr |-> jsmnreader_token_get_raw_ptr(rd, loc, m)]
         ELSE [txt |-> << >>, ptr |-> "indeterminate"]
    ELSE [txt |-> << >>, ptr |-> m]

\* The calls of jsmnreader_tree_get_x that return; one that dies takes its
\* caller with it.
Located(rd, mypath, offset) == TreeGetResults(rd, mypath, offset) \ {Crash}

\* The path strings the two are called with: the wrappers add nothing to
\* the walk, so one character fewer than jsmnreader_tree_get_x itself.
WrapperPaths == Paths(MaxPath - 1)

\* Every [loc, txt, ptr] jsmnreader_tree_get_string(mypath, offset, reader)
\* can come to.
TreeGetStringResults(rd, mypath, offset) ==
    UNION {{[loc |-> loc] @@ jsmnreader_tree_get_string(rd, loc, type, u, m)
            : type \in TypesAt(rd, loc), u \in Reads(rd), m \in Malloc0}
           : loc \in Located(rd, mypath, offset)}

TreeGetRawResults(rd, mypath, offset) ==
    UNION {{[loc |-> loc] @@ jsmnreader_tree_get_raw(rd, loc, type, u, m)
            : type \in TypesAt(rd, loc), u \in Reads(rd), m \in Malloc0}
           : loc \in Located(rd, mypath, offset)}

TreeGetString ==
    /\ Queryable
    /\ \E mypath \in WrapperPaths, offset \in Offsets :
         \E out \in TreeGetStringResults(Reader, mypath, offset) :
           Query([op |-> "tree_get_string", mypath |-> mypath, offset |-> offset,
                  loc |-> out.loc, ret |-> out.txt, ptr |-> out.ptr])

TreeGetRaw ==
    /\ Queryable
    /\ \E mypath \in WrapperPaths, offset \in Offsets :
         \E out \in TreeGetRawResults(Reader, mypath, offset) :
           Query([op |-> "tree_get_raw", mypath |-> mypath, offset |-> offset,
                  loc |-> out.loc, ret |-> out.txt, ptr |-> out.ptr])

\* ----------------------------------------------------- jsmnreader_dataskip
\* Every value jsmnreader_dataskip can leave in the cursor, and whether it
\* read a token past the end of the array.
DataSkipResults(rd, r, mode) ==
    {jsmnreader_dataskip(rd, r, mode, g)
     : g \in Beyond(jsmnreader_dataskip(rd, r, mode, FreshTok).oob)}

\* jsmnreader_dataskip as the walks call it: with the cursor on an Object
\* and mode 0, or on an Array and mode 1.
DataSkip ==
    /\ Queryable
    /\ \E r \in 0..(tokens_count - 1) :
         /\ Tok(tokens, r).type \in {JSMN_OBJECT, JSMN_ARRAY}
         /\ LET mode == IF Tok(tokens, r).type = JSMN_OBJECT THEN 0 ELSE 1
            IN \E out \in DataSkipResults(Reader, r, mode) :
                 Query([op |-> "dataskip", r |-> r, mode |-> mode, ret |-> out.r,
                        oob |-> out.oob])

NextNav ==
    \/ NavLoad \/ ReaderFree
    \/ TreeGetX \/ TokenArrayTokens \/ TokenArray \/ TokenObjectTokens
    \/ TokenGetInt \/ TokenGetUint \/ TokenGetFloat \/ TokenGetString
    \/ TokenIsNull \/ TokenIsSpecial \/ TokenGetRaw
    \/ TokenGetObject \/ TokenGetArray \/ TokenSize
    \/ TreeGetString \/ TreeGetRaw \/ DataSkip

SpecNav == InitNav /\ [][NextNav]_vars

\* ------------------------------------------------- JSON texts (RFC 8259)
\* A recogniser of the JSON grammar, used to say "syntactically valid JSON
\* text".  Each operator takes the offset where its construct starts and
\* gives the offset just past it, or -1 when the text has no such construct
\* there.
Digit == {"0", "1", "2", "3", "4", "5", "6", "7", "8", "9"}

Has(text, p, cs) == p >= 0 /\ p < Len(text) /\ At(text, p) \in cs

RECURSIVE SkipWs(_, _)
SkipWs(text, p) == IF Has(text, p, Whitespace) THEN SkipWs(text, p + 1) ELSE p

RECURSIVE SkipDigits(_, _)
SkipDigits(text, p) == IF Has(text, p, Digit) THEN SkipDigits(text, p + 1) ELSE p

JsonNumber(text, p) ==
    LET q == IF Has(text, p, {"-"}) THEN p + 1 ELSE p
        i == IF Has(text, q, {"0"}) THEN q + 1
             ELSE IF Has(text, q, Digit) THEN SkipDigits(text, q) ELSE -1
        f == IF i # -1 /\ Has(text, i, {"."})
             THEN (IF Has(text, i + 1, Digit) THEN SkipDigits(text, i + 1) ELSE -1)
             ELSE i
        x == IF f # -1 /\ Has(text, f, {"e", "E"})
             THEN LET g == IF Has(text, f + 1, {"+", "-"}) THEN f + 2 ELSE f + 1
                  IN IF Has(text, g, Digit) THEN SkipDigits(text, g) ELSE -1
             ELSE f
    IN x

JsonLiteral(text, p, word) ==
    IF p + Len(word) <= Len(text) /\ SubSeq(text, p + 1, p + Len(word)) = word
    THEN p + Len(word) ELSE -1

\* p is just past the opening quote.
RECURSIVE JsonStringBody(_, _)
JsonStringBody(text, p) ==
    IF ~(p < Len(text)) THEN -1
    ELSE IF At(text, p) = "\"" THEN p + 1
    ELSE IF At(text, p) \in Unprintable \cup {NUL} THEN -1
    ELSE IF At(text, p) = "\\"
    THEN IF Has(text, p + 1, SimpleEscape) THEN JsonStringBody(text, p + 2)
         ELSE IF /\ Has(text, p + 1, {"u"})
                 /\ \A k \in 2..5 : Has(text, p + k, HexDigit)
         THEN JsonStringBody(text, p + 6)
         ELSE -1
    ELSE JsonStringBody(text, p + 1)

JsonString(text, p) ==
    IF Has(text, p, {"\""}) THEN JsonStringBody(text, p + 1) ELSE -1

RECURSIVE JsonValue(_, _), JsonElements(_, _), JsonMembers(_, _)
JsonValue(text, p) ==
    IF Has(text, p, {"["})
    THEN LET q == SkipWs(text, p + 1)
         IN IF Has(text, q, {"]"}) THEN q + 1 ELSE JsonElements(text, q)
    ELSE IF Has(text, p, {"{"})
    THEN LET q == SkipWs(text, p + 1)
         IN IF Has(text, q, {"}"}) THEN q + 1 ELSE JsonMembers(text, q)
    ELSE IF Has(text, p, {"\""}) THEN JsonString(text, p)
    ELSE IF Has(text, p, {"t"}) THEN JsonLiteral(text, p, <<"t", "r", "u", "e">>)
    ELSE IF Has(text, p, {"f"}) THEN JsonLiteral(text, p, <<"f", "a", "l", "s", "e">>)
    ELSE IF Has(text, p, {"n"}) THEN JsonLiteral(text, p, <<"n", "u", "l", "l">>)
    ELSE JsonNumber(text, p)

\* "value (, value)* ]" from p
JsonElements(text, p) ==
    LET v == JsonValue(text, p)
        q == SkipWs(text, v)
    IN IF v = -1 THEN -1
       ELSE IF Has(text, q, {"]"}) THEN q + 1
       ELSE IF Has(text, q, {","}) THEN JsonElements(text, SkipWs(text, q + 1))
       ELSE -1

\* "string : value (, string : value)* }" from p
JsonMembers(text, p) ==
    LET k == JsonString(text, p)
        c == SkipWs(text, k)
        v == IF k # -1 /\ Has(text, c, {":"})
             THEN JsonValue(text, SkipWs(text, c + 1)) ELSE -1
        q == SkipWs(text, v)
    IN IF v = -1 THEN -1
       ELSE IF Has(text, q, {"}"}) THEN q + 1
       ELSE IF Has(text, q, {","}) THEN JsonMembers(text, SkipWs(text, q + 1))
       ELSE -1

IsValidJSON(text) ==
    LET v == JsonValue(text, SkipWs(text, 0))
    IN v # -1 /\ SkipWs(text, v) = Len(text)

\* ------------------------------------------------------------- the claims
\* What a fill-mode parse of the input with ample room returns (every token
\* takes at least one character, so Len(js) tokens are always enough).
AmpleFill == FillParse(js, Len(js))

\* C1: for every syntactically valid JSON text, the sizing pass of
\* jsmnreader_load (jsmn_parse with parsemode_sizecheck = 1 and
\* num_tokens = 2) returns what a fill-mode parse with ample capacity
\* returns.
C1_SizingMatchesFill ==
    (pc = "size_ret" /\ IsValidJSON(js)) => check = AmpleFill.ret

\* C2: whenever a fill-mode parse with ample capacity reports
\* JSMN_ERROR_INVAL (JSMN_ERROR_PART), jsmnreader_load returns
\* JSMN_ERROR_INVAL (JSMN_ERROR_PART), never JSMN_ERROR_NOMEM.
C2_LoadSurfacesErrorKind ==
    (pc = "loaded" /\ AmpleFill.ret \in {JSMN_ERROR_INVAL, JSMN_ERROR_PART})
        => load_ret = AmpleFill.ret

\* C3: after a jsmnreader_load that returned an error the reader is empty:
\* tokens_count is 0, so no query reaches a token.
C3_FailedLoadLeavesReaderEmpty ==
    (pc = "loaded" /\ load_ret \in {JSMN_ERROR_NOMEM, JSMN_ERROR_INVAL, JSMN_ERROR_PART})
        => tokens_count = 0

\* The texts { key : } : an object whose only key has a colon and no value.
KeyWithoutValue(text) ==
    /\ Len(text) >= 5
    /\ At(text, 0) = "{"
    /\ JsonString(text, 1) = Len(text) - 2
    /\ At(text, Len(text) - 2) = ":"
    /\ At(text, Len(text) - 1) = "}"

\* C4: a fill-mode parse with ample capacity of { key : } returns
\* JSMN_ERROR_INVAL.
C4_KeyWithoutValueRejected ==
    (pc = "parse_ret" /\ num_tokens = Len(js) /\ KeyWithoutValue(js))
        => check = JSMN_ERROR_INVAL

\* ---------------------------------------------- the text read on its own
\* What the characters say, read left to right without the token array.
Min(S) == CHOOSE x \in S : \A y \in S : x <= y

\* A string from offset q, just past its opening quote: "closed" when its
\* closing quote is there, "eof" when the text ends first, "bad" when an
\* escape is malformed before either.
RECURSIVE StringFate(_, _)
StringFate(text, q) ==
    IF q >= Len(text) THEN "eof"
    ELSE IF At(text, q) = "\"" THEN "closed"
    ELSE IF At(text, q) # "\\" THEN StringFate(text, q + 1)
    ELSE IF q + 1 >= Len(text) THEN "eof"
    ELSE IF At(text, q + 1) \in SimpleEscape THEN StringFate(text, q + 2)
    ELSE IF At(text, q + 1) # "u" THEN "bad"
    ELSE LET stop == {k \in 2..5 : q + k >= Len(text) \/ At(text, q + k) \notin HexDigit}
         IN IF stop = {} THEN StringFate(text, q + 6)
            ELSE IF q + Min(stop) >= Len(text) THEN "eof" ELSE "bad"

\* The offset of the first character from q on that ends a primitive,
\* Len(text) when there is none.
RECURSIVE PrimitiveStop(_, _)
PrimitiveStop(text, q) ==
    IF q >= Len(text) \/ At(text, q) \in PrimitiveEnd THEN q
    ELSE PrimitiveStop(text, q + 1)

\* The container tokens not yet closed.
OpenContainers ==
    {i \in 0..(parser.toknext - 1) :
        Tok(tokens, i).type \in {JSMN_OBJECT, JSMN_ARRAY} /\ Tok(tokens, i).end = -1}

\* A caller's fill-mode parse is running, with room for every token.
AmpleRunning == pc = "parse" /\ ~parsemode_sizecheck /\ num_tokens = Len(js)

\* The step ends the parse with return value v.
Returns(v) == pc' = "parse_ret" /\ check' = v

\* The primitive check of the ':' bookkeeping: a primitive where an object
\* expects a key, or after a key that already has its value.
PrimitiveMisplaced ==
    /\ parser.toksuper # -1
    /\ \/ Tok(tokens, parser.toksuper).type = JSMN_OBJECT
       \/ /\ Tok(tokens, parser.toksuper).type = JSMN_STRING
          /\ Tok(tokens, parser.toksuper).size # 0

\* C5: in fill mode with ample capacity and no error so far, jsmn_parse
\* returns JSMN_ERROR_PART when the input ends inside a string, inside a
\* primitive, or with a container still open; and it returns a count only
\* when every opened container has been closed.
C5_IncompleteInput ==
    [][AmpleRunning =>
         /\ (/\ More(js, parser.pos) /\ At(js, parser.pos) = "\""
             /\ StringFate(js, parser.pos + 1) = "eof")
                => Returns(JSMN_ERROR_PART)
         /\ (/\ More(js, parser.pos) /\ At(js, parser.pos) \in PrimitiveStart
             /\ ~PrimitiveMisplaced
             /\ PrimitiveStop(js, parser.pos) = Len(js))
                => Returns(JSMN_ERROR_PART)
         /\ (~More(js, parser.pos) /\ OpenContainers # {})
                => Returns(JSMN_ERROR_PART)
         /\ (pc' = "parse_ret" /\ check' >= 0) => OpenContainers' = {}
      ]_vars

\* C5 witness: the input ended inside a primitive, with a container open,
\* and the parse returned JSMN_ERROR_PART.
C5_Witness ==
    /\ pc = "parse_ret" /\ num_tokens = Len(js)
    /\ check = JSMN_ERROR_PART
    /\ parser.pos < Len(js)
    /\ At(js, parser.pos) = "1"
    /\ OpenContainers # {}

\* The offsets of the brackets opened and not yet closed in text[q..p),
\* innermost last, given those open before q.  Strings and primitives are
\* stepped over whole.
RECURSIVE OpenBrackets(_, _, _, _)
OpenBrackets(text, q, p, stack) ==
    IF q >= p THEN stack
    ELSE IF At(text, q) \in {"{", "["}
    THEN OpenBrackets(text, q + 1, p, Append(stack, q))
    ELSE IF At(text, q) \in {"}", "]"}
    THEN OpenBrackets(text, q + 1, p,
                      IF stack = << >> THEN stack ELSE SubSeq(stack, 1, Len(stack) - 1))
    ELSE IF At(text, q) = "\""
    THEN LET e == JsonStringBody(text, q + 1)
         IN IF e = -1 THEN stack ELSE OpenBrackets(text, e, p, stack)
    ELSE IF At(text, q) \in PrimitiveStart
    THEN OpenBrackets(text, PrimitiveStop(text, q), p, stack)
    ELSE OpenBrackets(text, q + 1, p, stack)

Closer(c) == IF c = "{" THEN "}" ELSE "]"

\* The tokens that start at offset p.
TokensAt(p) == {i \in 0..(parser.toknext - 1) : Tok(tokens, i).start = p}

\* C6: in fill mode, a closing bracket met while no bracket is open, or
\* while the innermost open bracket is of the other kind, makes jsmn_parse
\* return JSMN_ERROR_INVAL; otherwise it closes the token of the innermost
\* open bracket, of its own kind, and no other token.
C6_ClosingBracket ==
    [][(/\ pc = "parse" /\ More(js, parser.pos)
        /\ At(js, parser.pos) \in {"}", "]"})
         => LET stack == OpenBrackets(js, 0, parser.pos, << >>)
                top   == stack[Len(stack)]
            IN IF stack = << >> \/ Closer(At(js, top)) # At(js, parser.pos)
               THEN Returns(JSMN_ERROR_INVAL)
               ELSE /\ pc' = "parse"
                    /\ \E i \in TokensAt(top) :
                         /\ Tok(tokens, i).type =
                              (IF At(js, parser.pos) = "}" THEN JSMN_OBJECT ELSE JSMN_ARRAY)
                         /\ Tok(tokens, i).end = -1
                         /\ tokens' = [tokens EXCEPT ![i + 1].end = parser.pos + 1]
      ]_vars

\* C6 witness: a '}' met inside two open brackets, the inner one a '[', was
\* refused.
C6_Witness ==
    /\ pc = "parse_ret"
    /\ check = JSMN_ERROR_INVAL
    /\ parser.pos < Len(js) /\ At(js, parser.pos) = "}"
    /\ Len(OpenBrackets(js, 0, parser.pos, << >>)) = 2

\* The step at parser.pos needs a fresh token: an opening bracket, a string
\* with its closing quote, or a well-placed primitive with its terminator.
NeedsToken ==
    /\ More(js, parser.pos)
    /\ \/ At(js, parser.pos) \in {"{", "["}
       \/ /\ At(js, parser.pos) = "\""
          /\ StringFate(js, parser.pos + 1) = "closed"
       \/ /\ At(js, parser.pos) \in PrimitiveStart
          /\ ~PrimitiveMisplaced
          /\ PrimitiveStop(js, parser.pos) < Len(js)

\* C7: in fill mode over a caller's array of num_tokens tokens, toknext
\* never exceeds num_tokens (no token is written at an index >= num_tokens),
\* and the step that needs a token while toknext = num_tokens returns
\* JSMN_ERROR_NOMEM.
C7_NeverBeyondCapacity ==
    [][/\ pc' \in {"parse", "parse_ret"}
            => parser'.toknext <= num_tokens' /\ Len(tokens') = num_tokens'
       /\ (pc = "parse" /\ parser.toknext = num_tokens /\ NeedsToken)
            => Returns(JSMN_ERROR_NOMEM) /\ tokens' = tokens
      ]_vars

\* C7 witness: a full array met one more token and the parse returned
\* JSMN_ERROR_NOMEM.
C7_Witness ==
    /\ pc = "parse_ret"
    /\ check = JSMN_ERROR_NOMEM
    /\ num_tokens >= 2
    /\ parser.toknext = num_tokens

\* The offset of the closing bracket that brings the nesting depth back to
\* 0, reading the text from q at the given depth; -1 when there is none.
RECURSIVE MatchFrom(_, _, _)
MatchFrom(text, q, depth) ==
    IF q >= Len(text) THEN -1
    ELSE IF At(text, q) \in {"{", "["} THEN MatchFrom(text, q + 1, depth + 1)
    ELSE IF At(text, q) \in {"}", "]"}
    THEN IF depth = 1 THEN q ELSE MatchFrom(text, q + 1, depth - 1)
    ELSE IF At(text, q) = "\""
    THEN LET e == JsonStringBody(text, q + 1)
         IN IF e = -1 THEN -1 ELSE MatchFrom(text, e, depth)
    ELSE IF At(text, q) \in PrimitiveStart
    THEN MatchFrom(text, PrimitiveStop(text, q), depth)
    ELSE MatchFrom(text, q + 1, depth)

\* The closing bracket that matches the opening bracket at offset p.
MatchingClose(text, p) == MatchFrom(text, p + 1, 1)

\* A caller's fill-mode parse has returned a count.
Parsed == pc = "parse_ret" /\ check >= 0

TokenIds == 0..(parser.toknext - 1)

IsContainer(i) == Tok(tokens, i).type \in {JSMN_OBJECT, JSMN_ARRAY}

\* C8: after a successful parse every token has a resolved span with
\* 0 <= start <= end <= input length; a String's span has its quotes just
\* outside it; a container's span starts at its opening bracket and ends
\* just past the matching closing bracket.
C8_ResolvedSpans ==
    Parsed =>
      /\ parser.toknext = check
      /\ \A i \in TokenIds :
           LET t == Tok(tokens, i)
           IN /\ t.type \in {JSMN_OBJECT, JSMN_ARRAY, JSMN_STRING, JSMN_PRIMITIVE}
              /\ 0 <= t.start /\ t.start <= t.end /\ t.end <= Len(js)
              /\ t.type = JSMN_STRING =>
                   /\ t.start >= 1 /\ At(js, t.start - 1) = "\""
                   /\ t.end < Len(js) /\ At(js, t.end) = "\""
              /\ t.type \in {JSMN_OBJECT, JSMN_ARRAY} =>
                   /\ At(js, t.start) = (IF t.type = JSMN_OBJECT THEN "{" ELSE "[")
                   /\ t.end - 1 = MatchingClose(js, t.start)
                   /\ At(js, t.end - 1) = Closer(At(js, t.start))

\* C8 witness: a successful parse of a container that holds a container,
\* a non-empty String and something after it.
C8_Witness ==
    /\ Parsed
    /\ parser.toknext >= 4
    /\ \E i \in TokenIds : Tok(tokens, i).type = JSMN_STRING
                           /\ Tok(tokens, i).end > Tok(tokens, i).start
    /\ \E i \in TokenIds : i > 0 /\ IsContainer(i)

\* Token j lies inside the span of container k.
Inside(j, k) ==
    /\ Tok(tokens, k).start < Tok(tokens, j).start
    /\ Tok(tokens, j).end < Tok(tokens, k).end

\* The tokens directly inside container k: inside it and inside no
\* container that is itself inside k.
Children(k) ==
    {j \in TokenIds :
        /\ Inside(j, k)
        /\ ~\E c \in TokenIds : IsContainer(c) /\ Inside(c, k) /\ Inside(j, c)}

\* C9: after a successful parse the size of every Array is the number of
\* tokens directly inside it, and the size of every Object is the number of
\* its key/value pairs (two tokens directly inside it per pair).
C9_SizeCountsChildren ==
    Parsed =>
      \A k \in TokenIds :
        /\ Tok(tokens, k).type = JSMN_ARRAY =>
             Tok(tokens, k).size = Cardinality(Children(k))
        /\ Tok(tokens, k).type = JSMN_OBJECT =>
             2 * Tok(tokens, k).size = Cardinality(Children(k))

\* C10: after a successful parse start offsets strictly increase with the
\* token index, and the tokens inside a container's span are exactly the
\* index range that follows the container.
C10_PreOrder ==
    Parsed =>
      /\ \A i, j \in TokenIds : i < j => Tok(tokens, i).start < Tok(tokens, j).start
      /\ \A k \in TokenIds :
           IsContainer(k) =>
             LET in == {j \in TokenIds : Inside(j, k)}
             IN in = (k + 1)..(k + Cardinality(in))

\* C10 witness: a successful parse in which a nested container holds a
\* token and is followed by a sibling.
C10_Witness ==
    /\ Parsed
    /\ \E k \in TokenIds :
         /\ k > 0 /\ IsContainer(k)
         /\ \E j \in TokenIds : Inside(j, k)
         /\ \E j \in TokenIds : j > k /\ ~Inside(j, k) /\ Inside(j, 0)

\* The position of token j among the tokens directly inside container k.
Rank(j, k) == Cardinality({i \in Children(k) : i <= j})

\* C11: after a successful parse the tokens directly inside an Object
\* alternate key, value, key, value: every token at an odd position is a
\* String that owns exactly one value, which is the token right after it,
\* and no value is itself a key; the tokens directly inside an Array are
\* values only (no String among them owns a value).
C11_ObjectAlternation ==
    Parsed =>
      \A k \in TokenIds :
        /\ Tok(tokens, k).type = JSMN_OBJECT =>
             /\ Cardinality(Children(k)) % 2 = 0
             /\ \A j \in Children(k) :
                  IF Rank(j, k) % 2 = 1
                  THEN /\ Tok(tokens, j).type = JSMN_STRING
                       /\ Tok(tokens, j).size = 1
                       /\ j + 1 \in Children(k)
                  ELSE Tok(tokens, j).type = JSMN_STRING => Tok(tokens, j).size = 0
        /\ Tok(tokens, k).type = JSMN_ARRAY =>
             \A j \in Children(k) :
                Tok(tokens, j).type = JSMN_STRING => Tok(tokens, j).size = 0

\* C12: a second jsmnreader_load of the same buffer into the same reader
\* returns what the first returned and leaves the same tokens_count and
\* the same tokens (kind, start, end, size).
C12_ReloadSameResult ==
    (pc = "loaded" /\ loads = 2) =>
      /\ load_ret = first.ret
      /\ tokens_count = first.tokens_count
      /\ tokens = first.tokens

\* ================================================= the reader's claims
\* ------------------------------------------- the document read on its own
\* The tokens of the loaded reader.
NavIds == 0..(tokens_count - 1)

\* A reader that jsmnreader_load filled from a JSON text.
LoadedValid == pc = "loaded" /\ load_ret = JSMN_SUCCESS /\ IsValidJSON(js)

\* The tokens directly inside container k, by their spans.
Directly(k) ==
    {j \in NavIds :
        /\ Inside(j, k)
        /\ ~\E c \in NavIds : IsContainer(c) /\ Inside(c, k) /\ Inside(j, c)}

\* Token j is a key of the text: a String whose closing quote is followed
\* by a colon.
IsKey(j) ==
    /\ Tok(tokens, j).type = JSMN_STRING
    /\ Has(js, SkipWs(js, Tok(tokens, j).end + 1), {":"})

\* The characters between the quotes of String j.
Between(j) == SubSeq(js, Tok(tokens, j).start + 1, Tok(tokens, j).end)

\* The keys of Object k equal to segment.
KeysEqual(k, segment) ==
    {j \in Directly(k) : IsKey(j) /\ Between(j) = segment}

\* A path string cut at every backslash.
RECURSIVE Segments(_)
Segments(mypath) ==
    IF \A p \in 1..Len(mypath) : mypath[p] # "\\" THEN <<mypath>>
    ELSE LET cut == Min({p \in 1..Len(mypath) : mypath[p] = "\\"})
         IN <<SubSeq(mypath, 1, cut - 1)>>
            \o Segments(SubSeq(mypath, cut + 1, Len(mypath)))

\* Level by level, the first key equal to each segment but the last has an
\* Object value (a level without such a key ends the descent).
RECURSIVE Descends(_, _)
Descends(k, segs) ==
    \/ Len(segs) = 1
    \/ KeysEqual(k, Head(segs)) = {}
    \/ LET v == Min(KeysEqual(k, Head(segs))) + 1
       IN Tok(tokens, v).type = JSMN_OBJECT /\ Descends(v, Tail(segs))

\* The value the path names from Object k: that of the first key equal to
\* the last segment in the last Object reached, NotFound when a level has
\* no key equal to its segment.
RECURSIVE Named(_, _)
Named(k, segs) ==
    IF KeysEqual(k, Head(segs)) = {} THEN NotFound
    ELSE LET v == Min(KeysEqual(k, Head(segs))) + 1
         IN IF Len(segs) = 1 THEN v ELSE Named(v, Tail(segs))

\* A jsmnreader_tree_get_x call was made with a path of at least one
\* segment on an Object of a loaded JSON text.
PathCall ==
    /\ LoadedValid
    /\ nav.op = "tree_get_x"
    /\ nav.mypath # << >>
    /\ nav.offset < tokens_count
    /\ Tok(tokens, nav.offset).type = JSMN_OBJECT

\* C13: on a loaded JSON text, jsmnreader_tree_get_x from an Object with a
\* path k1\...\kn (n >= 1) whose non-final segments each lead to an Object
\* returns the index of the value of the first key equal to kn in the last
\* Object reached, and NotFound when a level has no key equal to its
\* segment.
C13_PathResolves ==
    (PathCall /\ Descends(nav.offset, Segments(nav.mypath)))
      => nav.ret = Named(nav.offset, Segments(nav.mypath))

\* The same on the texts that have no empty key or string.
PathResolvesBarEmpty ==
    (PathCall /\ Descends(nav.offset, Segments(nav.mypath))
     /\ Unwritten(Reader) = {})
      => nav.ret = Named(nav.offset, Segments(nav.mypath))

\* C14: jsmnreader_tree_get_x returns the NotFound sentinel whenever the
\* reader holds no tokens, the offset is none of its tokens, or the token at
\* the offset is neither an Object nor an Array.
C14_InvalidScopeNotFound ==
    (nav.op = "tree_get_x" /\ ~InOffset(Reader, nav.offset))
      => nav.ret = NotFound

Lists(arrays, Tokens) ==
    /\ Len(arrays) = Cardinality(Tokens)
    /\ {arrays[i] : i \in 1..Len(arrays)} = Tokens
    /\ \A i \in 1..(Len(arrays) - 1) : arrays[i] < arrays[i + 1]

\* C16: on an Array token of a loaded JSON text
\* jsmnreader_token_array_tokens returns exactly size entries, the indices
\* of the tokens directly inside the Array in source order and nothing from
\* inside a nested container; on a token that is no Array the list is
\* empty.
C16_ArrayTokens ==
    nav.op = "token_array_tokens" =>
      IF jsmnreader_token_get_array(Reader, nav.offset) = NotFound
      THEN nav.arrays = << >>
      ELSE LoadedValid =>
             /\ Len(nav.arrays) = Tok(tokens, nav.offset).size
             /\ Lists(nav.arrays, Directly(nav.offset))

\* C16 witness: the list of an Array of a JSON text that holds a nested
\* container with something in it, and an element after it.
C16_Witness ==
    /\ LoadedValid
    /\ nav.op = "token_array_tokens"
    /\ jsmnreader_token_get_array(Reader, nav.offset) # NotFound
    /\ Len(nav.arrays) >= 2
    /\ \E i \in 1..(Len(nav.arrays) - 1) : nav.arrays[i + 1] > nav.arrays[i] + 1

\* C17: jsmnreader_token_array(n, a) is the n-th entry of the list
\* jsmnreader_token_array_tokens(a) hands back when n is smaller than its
\* length, and NotFound otherwise.
C17_ArrayNth ==
    nav.op = "token_array" =>
      \A arrays \in ArrayTokensResults(Reader, nav.offset) :
        nav.ret = IF nav.index < Len(arrays) THEN arrays[nav.index + 1]
                  ELSE NotFound

\* The same on the loaded JSON texts.
ArrayNthOnJSON ==
    (nav.op = "token_array" /\ (pc = "loaded" => LoadedValid)) =>
      \A arrays \in ArrayTokensResults(Reader, nav.offset) :
        nav.ret = IF nav.index < Len(arrays) THEN arrays[nav.index + 1]
                  ELSE NotFound

\* The keys of Object k.
KeysOf(k) == {j \in Directly(k) : IsKey(j)}

\* C18: on an Object token of a loaded JSON text
\* jsmnreader_token_object_tokens returns, in source order, the key indices
\* with JSMNR_KEYONLY, the value indices (each its key's index + 1) with
\* JSMNR_ITEMONLY, and key then value per pair with JSMNR_BOTH, a nested
\* container giving its own index and none of its contents; on a token
\* that is no Object the list is empty.
C18_ObjectTokens ==
    nav.op = "token_object_tokens" =>
      IF jsmnreader_token_get_object(Reader, nav.offset) = NotFound
      THEN nav.returns /\ nav.arrays = << >>
      ELSE LoadedValid =>
             LET keys   == KeysOf(nav.offset)
                 values == {j + 1 : j \in keys}
             IN /\ nav.returns
                /\ Cardinality(keys) = Tok(tokens, nav.offset).size
                /\ nav.read_setting = JSMNR_KEYONLY => Lists(nav.arrays, keys)
                /\ nav.read_setting = JSMNR_ITEMONLY => Lists(nav.arrays, values)
                /\ nav.read_setting = JSMNR_BOTH =>
                     /\ Lists(nav.arrays, keys \cup values)
                     /\ \A i \in 1..Len(nav.arrays) :
                          nav.arrays[i] \in (IF i % 2 = 1 THEN keys ELSE values)

\* C18 witness: the key-then-value list of an Object of a JSON text with
\* two pairs, the first value a container with something in it.
C18_Witness ==
    /\ LoadedValid
    /\ nav.op = "token_object_tokens"
    /\ nav.read_setting = JSMNR_BOTH
    /\ Len(nav.arrays) = 4
    /\ nav.arrays[3] > nav.arrays[2] + 1

\* ------------------------------------------------- the accessors' claims
Accessors ==
    {"token_get_int", "token_get_uint", "token_get_float", "token_get_string",
     "token_is_null", "token_is_special", "token_get_raw", "token_get_object",
     "token_get_array", "token_size"}

\* The kinds of token an accessor is for.
KindsFor(op) ==
    IF op \in {"token_get_string", "token_get_raw"} THEN {JSMN_STRING, JSMN_PRIMITIVE}
    ELSE IF op = "token_get_object" THEN {JSMN_OBJECT}
    ELSE IF op = "token_get_array" THEN {JSMN_ARRAY}
    ELSE IF op = "token_size" THEN {JSMN_OBJECT, JSMN_ARRAY}
    ELSE {JSMN_PRIMITIVE}

\* What an accessor gives when it fails softly.
Soft(op) ==
    IF op \in {"token_get_string", "token_get_raw"} THEN << >>
    ELSE IF op \in {"token_get_object", "token_get_array"} THEN NotFound
    ELSE 0

\* C19: every token accessor fails softly.  With an index >= tokens_count
\* (a reader never loaded or released included) it reads no token, and
\* then or when the token's kind is not the accessor's it returns 0
\* (get_int, get_uint, get_float, is_null, is_special, token_size), the
\* empty string (get_string, get_raw) or NotFound (token_get_object,
\* token_get_array).
C19_AccessorsFailSoftly ==
    nav.op \in Accessors =>
      IF nav.index >= tokens_count
      THEN nav.reads = {} /\ nav.ret = Soft(nav.op)
      ELSE Tok(tokens, nav.index).type \notin KindsFor(nav.op)
             => nav.ret = Soft(nav.op)

\* C19 witness: jsmnreader_token_get_string was called on a released
\* reader with the index of what was its root token.
C19_Witness ==
    /\ pc = "freed"
    /\ nav.op = "token_get_string"
    /\ nav.index = 0
    /\ nav.ret = << >>
    /\ nav.reads = {}

\* The characters of Primitive i in the text.
PrimitiveText(i) == SubSeq(js, Tok(tokens, i).start + 1, Tok(tokens, i).end)

\* A text of digits read in base 10, from its last digit back.
RECURSIVE Base10(_)
Base10(text) ==
    IF Len(text) = 0 THEN 0
    ELSE Base10(SubSeq(text, 1, Len(text) - 1)) * 10
         + DigitValue(text[Len(text)])

\* A text that is digits, or a minus sign and digits.
IsNumeral(text) ==
    LET digits == IF Len(text) > 0 /\ text[1] = "-" THEN Tail(text) ELSE text
    IN Len(digits) > 0 /\ \A p \in 1..Len(digits) : digits[p] \in IsDigit

Signed(text) == IF text[1] = "-" THEN 0 - Base10(Tail(text)) ELSE Base10(text)

\* C20: on a Primitive token jsmnreader_token_get_int returns 1 when the
\* text is exactly true (and 0 for any other word, false and null among
\* them) and the signed base-10 value of a text that is a numeral;
\* jsmnreader_token_get_uint and jsmnreader_token_get_float return 1 for
\* true as well.
C20_GetIntValues ==
    (/\ pc = "loaded"
     /\ nav.op \in {"token_get_int", "token_get_uint", "token_get_float"}
     /\ nav.index < tokens_count
     /\ Tok(tokens, nav.index).type = JSMN_PRIMITIVE)
      => LET text == PrimitiveText(nav.index)
         IN /\ text = True => nav.ret = 1
            /\ nav.op = "token_get_int" =>
                 /\ text \in {False, Null} => nav.ret = 0
                 /\ (text[1] \in {"t", "f", "n"} /\ text # True) => nav.ret = 0
                 /\ IsNumeral(text) => nav.ret = Signed(text)

\* C20 witness: jsmnreader_token_get_int was called on a Primitive with
\* the text -5 and returned -5.
C20_Witness ==
    /\ pc = "loaded"
    /\ nav.op = "token_get_int"
    /\ nav.index < tokens_count
    /\ Tok(tokens, nav.index).type = JSMN_PRIMITIVE
    /\ PrimitiveText(nav.index) = <<"-", "5">>
    /\ nav.ret = -5

\* ------------------------------------------- the accessors' claims, continued
\* The upper and the lower 16 bits of a 32-bit value.
HighHalf(x) == (x \div 65536) % 65536

LowHalf(x) == x % 65536

\* C21: jsmnreader_token_get_uint on a Primitive whose text is a minus
\* sign and the digits of n, 0 < n < 2^32, returns 2^32 - n: the value
\* whose upper and lower halves are those of 2^32 - 1 - (n - 1), which is
\* 65535 * 65536 + 65531 = 4294967291 for the text -5.
C21_GetUintWraps ==
    (/\ pc = "loaded"
     /\ nav.op = "token_get_uint"
     /\ nav.index < tokens_count
     /\ Tok(tokens, nav.index).type = JSMN_PRIMITIVE
     /\ IsNumeral(PrimitiveText(nav.index))
     /\ PrimitiveText(nav.index)[1] = "-"
     /\ Base10(Tail(PrimitiveText(nav.index))) > 0)
      => LET n == Base10(Tail(PrimitiveText(nav.index)))
         IN /\ HighHalf(nav.ret) = 65535 - ((n - 1) \div 65536)
            /\ LowHalf(nav.ret) = 65535 - ((n - 1) % 65536)

\* C21 witness: jsmnreader_token_get_uint was called on a Primitive with
\* the text -5 and returned 4294967291.
C21_Witness ==
    /\ pc = "loaded"
    /\ nav.op = "token_get_uint"
    /\ nav.index < tokens_count
    /\ Tok(tokens, nav.index).type = JSMN_PRIMITIVE
    /\ PrimitiveText(nav.index) = <<"-", "5">>
    /\ HighHalf(nav.ret) = 65535
    /\ LowHalf(nav.ret) = 65531

\* ------------------------------------------------- the strings' claims
\* The characters of token i between byte_start and byte_end.
TextOf(i) == SubSeq(js, Tok(tokens, i).start + 1, Tok(tokens, i).end)

\* A text with every backslash that starts a sequence removed and the
\* character after it kept, whatever it is.
RECURSIVE BackslashesRemoved(_)
BackslashesRemoved(text) ==
    IF Len(text) = 0 THEN << >>
    ELSE IF text[1] = "\\" /\ Len(text) > 1
    THEN <<text[2]>> \o BackslashesRemoved(SubSeq(text, 3, Len(text)))
    ELSE IF text[1] = "\\" THEN << >>
    ELSE <<text[1]>> \o BackslashesRemoved(Tail(text))

\* A call of a string accessor on a String or Primitive token of a loaded
\* reader.
StringCall(op) ==
    /\ pc = "loaded"
    /\ nav.op = op
    /\ nav.index < tokens_count
    /\ Tok(tokens, nav.index).type \in {JSMN_STRING, JSMN_PRIMITIVE}

\* C22: jsmnreader_token_get_string on a String or Primitive token returns
\* the token's text with backslash-quote as a quote, backslash-backslash as
\* one backslash, and of every other backslash sequence the backslash
\* removed and the characters after it copied: a, backslash, n, b gives
\* a, n, b.
C22_GetStringUnescapes ==
    StringCall("token_get_string")
      => nav.ret = BackslashesRemoved(TextOf(nav.index))

\* The same on the texts in which every backslash is followed by a quote
\* or a backslash and that are not empty once unescaped.
GetStringOnQuoteAndBackslash ==
    (/\ StringCall("token_get_string")
     /\ BackslashesRemoved(TextOf(nav.index)) # << >>
     /\ \A p \in 1..Len(TextOf(nav.index)) : TextOf(nav.index)[p] \notin {"n", "u"})
      => nav.ret = BackslashesRemoved(TextOf(nav.index))

\* C23: jsmnreader_token_get_raw returns the source text unchanged: of a
\* String the bytes byte_start-1 .. byte_end+1, quotes and backslashes
\* included, of a Primitive the bytes byte_start .. byte_end.
C23_GetRawUnchanged ==
    StringCall("token_get_raw")
      => LET t == Tok(tokens, nav.index)
         IN nav.ret = IF t.type = JSMN_STRING
                      THEN SubSeq(js, t.start, t.end + 1)
                      ELSE TextOf(nav.index)

\* The same on the tokens without a backslash.
GetRawWithoutBackslash ==
    (/\ StringCall("token_get_raw")
     /\ \A p \in 1..Len(TextOf(nav.index)) : TextOf(nav.index)[p] # "\\")
      => LET t == Tok(tokens, nav.index)
         IN nav.ret = IF t.type = JSMN_STRING
                      THEN SubSeq(js, t.start, t.end + 1)
                      ELSE TextOf(nav.index)

StringOps == {"token_get_string", "token_get_raw", "tree_get_string", "tree_get_raw"}

\* C24: every string-returning operation returns, on every path, failure
\* included, a freshly allocated buffer the caller can release: never the
\* static literal, a null pointer or a pointer never assigned.
C24_StringsOwned ==
    nav.op \in StringOps => nav.ptr \in {"extracted", "unwritten"}

\* The same for the calls that succeed: the index or the path names a
\* String or Primitive token with characters and no backslash.
StringsOwnedOnSuccess ==
    LET i == IF nav.op \in {"token_get_string", "token_get_raw"} THEN nav.index
             ELSE nav.loc
    IN (/\ nav.op \in StringOps
        /\ pc = "loaded"
        /\ i >= 0 /\ i < tokens_count
        /\ Tok(tokens, i).type \in {JSMN_STRING, JSMN_PRIMITIVE}
        /\ TextOf(i) # << >>
        /\ \A p \in 1..Len(TextOf(i)) : TextOf(i)[p] # "\\")
         => nav.ptr = "extracted"

\* ------------------------------------------------- the walks' claims
\* The tokens of the subtree of container k, by their spans.
Subtree(k) == {j \in NavIds : Inside(j, k)}

\* C25: on a loaded JSON text, jsmnreader_dataskip called on a container
\* token k (mode 0 for an Object, 1 for an Array) leaves the cursor just
\* past the subtree: at k + 1 + the number of tokens inside k.
C25_DataSkipPastSubtree ==
    (LoadedValid /\ nav.op = "dataskip")
      => nav.ret = nav.r + 1 + Cardinality(Subtree(nav.r))

\* C25 witness: jsmnreader_dataskip was called on the Object at token 2 of
\* [1,{"a":1},[1,1],1] and left the cursor at 5, on the inner Array.
C25_Witness ==
    /\ LoadedValid
    /\ tokens_count = 9
    /\ nav.op = "dataskip"
    /\ nav.r = 2
    /\ nav.mode = 0
    /\ nav.ret = 5
    /\ Tok(tokens, 5).type = JSMN_ARRAY

\* A jsmnreader_tree_get_x call on an Object of a loaded JSON text without
\* empty keys, with a path of at least two segments whose first segment is
\* a key of the Object.
DeeperCall ==
    /\ PathCall
    /\ Unwritten(Reader) = {}
    /\ Len(Segments(nav.mypath)) > 1
    /\ KeysEqual(nav.offset, Head(Segments(nav.mypath))) # {}

\* The value of the first key of Object k equal to segment.
FirstValue(k, segment) == Min(KeysEqual(k, segment)) + 1

\* C26: when a key equals the current segment, its value is a String or a
\* Primitive and the segment is not the last, the pair is a miss: the
\* scalar's index is not returned (and with no later sibling to match the
\* path resolves to NotFound).
C26_ScalarNotDescended ==
    (/\ DeeperCall
     /\ ~IsContainer(FirstValue(nav.offset, Head(Segments(nav.mypath)))))
      => /\ nav.ret # FirstValue(nav.offset, Head(Segments(nav.mypath)))
         /\ Cardinality(KeysEqual(nav.offset, Head(Segments(nav.mypath)))) = 1
              => nav.ret = NotFound

\* What is left of the path string after its first segment and the
\* delimiter.
RestOf(mypath) ==
    SubSeq(mypath, Len(Head(Segments(mypath))) + 2, Len(mypath))

\* C27: when a key equals the current segment, its value is a container,
\* Object or Array alike, and more segments remain, the walk descends: the
\* container becomes the scope and matching goes on with the next segment
\* from the container's first child, so the call gives what a call with
\* the rest of the path gives from that container.
C27_ContainerDescended ==
    (/\ DeeperCall
     /\ IsContainer(FirstValue(nav.offset, Head(Segments(nav.mypath)))))
      => nav.ret \in TreeGetResults(Reader, RestOf(nav.mypath),
                                    FirstValue(nav.offset, Head(Segments(nav.mypath))))

\* The same when the container is an Object.
ObjectDescended ==
    (/\ DeeperCall
     /\ Tok(tokens, FirstValue(nav.offset, Head(Segments(nav.mypath)))).type = JSMN_OBJECT)
      => nav.ret \in TreeGetResults(Reader, RestOf(nav.mypath),
                                    FirstValue(nav.offset, Head(Segments(nav.mypath))))

\* The same for a path of two segments, by the keys of the Object reached.
ObjectDescendedToKey ==
    (/\ DeeperCall
     /\ Len(Segments(nav.mypath)) = 2
     /\ Tok(tokens, FirstValue(nav.offset, Head(Segments(nav.mypath)))).type = JSMN_OBJECT)
      => LET v    == FirstValue(nav.offset, Head(Segments(nav.mypath)))
             keys == KeysEqual(v, Segments(nav.mypath)[2])
         IN nav.ret = IF keys = {} THEN NotFound ELSE Min(keys) + 1

\* The segments put together again with the delimiter between them.
RECURSIVE Rejoined(_)
Rejoined(segs) ==
    IF Len(segs) = 0 THEN << >>
    ELSE IF Len(segs) = 1 THEN segs[1]
    ELSE segs[1] \o <<"\\">> \o Rejoined(Tail(segs))

\* A jsmnreader_tree_get_x call that came to split its path.
SplitCall == nav.op = "tree_get_x" /\ InOffset(Reader, nav.offset)

\* C28: jsmnreader_tree_parsepath yields no segment for the empty string
\* and, for a string with k delimiters, k + 1 segments in order, the empty
\* ones included (leading, trailing, doubled delimiters); the segments
\* rejoined with the delimiter are the input.
C28_ParsePathSplits ==
    SplitCall
      => LET segs == jsmnreader_tree_parsepath(nav.mypath)
             k    == Cardinality({p \in 1..Len(nav.mypath) : nav.mypath[p] = "\\"})
         IN IF nav.mypath = << >> THEN segs = << >>
            ELSE /\ Len(segs) = k + 1
                 /\ \A s \in 1..Len(segs) :
                      \A p \in 1..Len(segs[s]) : segs[s][p] # "\\"
                 /\ Rejoined(segs) = nav.mypath

\* C28 witness: a path of a leading and a trailing delimiter around a key
\* was split into an empty segment, the key and an empty segment.
C28_Witness ==
    /\ SplitCall
    /\ nav.mypath = <<"\\", "a", "\\">>
    /\ jsmnreader_tree_parsepath(nav.mypath) = <<<< >>, <<"a">>, << >>>>

Walks == {"tree_get_x", "dataskip", "token_array_tokens", "token_object_tokens"}

\* A walk was called on a successfully loaded document.
WalkCall == pc = "loaded" /\ load_ret = JSMN_SUCCESS /\ nav.op \in Walks

\* C29: on a successfully loaded document, for every scope, path and mode,
\* jsmnreader_tree_get_x, jsmnreader_dataskip,
\* jsmnreader_token_array_tokens and jsmnreader_token_object_tokens read
\* only tokens below tokens_count: no look-ahead leaves the token array.
C29_WalksStayInArray == WalkCall => ~nav.oob

\* The same on the JSON texts, for every walk but jsmnreader_tree_get_x
\* from an Array.
WalksStayInArrayBarArrayScope ==
    (/\ WalkCall
     /\ IsValidJSON(js)
     /\ nav.op = "tree_get_x" /\ nav.offset < tokens_count
          => Tok(tokens, nav.offset).type # JSMN_ARRAY)
      => ~nav.oob

\* C30: jsmnreader_tree_get_x, jsmnreader_dataskip,
\* jsmnreader_token_array_tokens and jsmnreader_token_object_tokens
\* terminate on every successfully loaded document, for every scope, path
\* and mode: no loop goes round without stopping, advancing the cursor or
\* counting down the children left.
C30_WalksTerminate ==
    (WalkCall /\ nav.op = "token_object_tokens") => ~nav.hang

\* The same on the JSON texts.
WalksTerminateOnJSON ==
    (WalkCall /\ nav.op = "token_object_tokens" /\ IsValidJSON(js)) => ~nav.hang

====
